---- MODULE Spec2Model ----
(***************************************************************************)
(* Model of the busferrytrain search pipeline.                             *)
(*                                                                         *)
(*  - Spec      : the city-to-city fan-out search handler (GET of the      *)
(*                search route, streaming and batch mode) together with    *)
(*                the browser client (performSearch / the search store)    *)
(*                that consumes its server-sent events.                    *)
(*  - SpecDedup : deduplicateTrips as a pure function over bounded trip    *)
(*                lists.                                                   *)
(*                                                                         *)
(* Times "HH:MM" are zero padded by formatTime, so localeCompare orders    *)
(* them like the number of minutes since midnight; a time is modelled as   *)
(* that number.  Prices are positive (parseApiResponse skips price <= 0),  *)
(* and with fixed-width times the template string                          *)
(* `${departureTime}-${arrivalTime}-${operator}-${price.amount}` is        *)
(* injective on such trips; a key is modelled as the tuple of the four     *)
(* fields.                                                                 *)
(***************************************************************************)
EXTENDS Integers, Sequences, FiniteSets, TLC

\* ------------------------------------------------------------------ bounds

\* Largest number of stations of the origin city "Bangkok".
MaxOrigin == 3
\* Longest trip list handed to deduplicateTrips in SpecDedup.
MaxLen == 3
\* Largest number of wire units one reader.read() of the client returns.
MaxChunk == 3

\* ------------------------------------------------------- program constants

CONCURRENCY == 5

\* null where a string is expected, and null where an object is expected.
NULL == "null"

NullObject == [null |-> TRUE]

\* ------------------------------------------------------------ sequence help

Min(a, b) == IF a < b THEN a ELSE b

Range(s) == {s[k] : k \in DOMAIN s}

\* Number of positions of s holding x.
Count(s, x) == Cardinality({k \in DOMAIN s : s[k] = x})

SameBag(s, t) == /\ Len(s) = Len(t)
                 /\ \A x \in Range(s) \cup Range(t) : Count(s, x) = Count(t, x)

\* -------------------------------------------------------------------- trips

Trip(id, dep, arr, op, amount, seats) ==
    [id |-> id, departureTime |-> dep, arrivalTime |-> arr, operator |-> op,
     amount |-> amount, availableSeats |-> seats,
     duration |-> arr - dep, vehicleType |-> "ferry"]

\* Two instances of one departure sold through different station pairs (same
\* key, 10 and 25 seats), a second 25-seat instance, an earlier departure of
\* another operator, and a trip differing from the first in its price only.
TripA10 == Trip("a10", 600, 720, "Lomprayah", 500, 10)
TripA25 == Trip("a25", 600, 720, "Lomprayah", 500, 25)
TripA25b == Trip("a25b", 600, 720, "Lomprayah", 500, 25)
TripB == Trip("b", 480, 700, "Songserm", 450, 5)
TripC == Trip("c", 600, 720, "Lomprayah", 650, 40)

getTripKey(trip) ==
    <<trip.departureTime, trip.arrivalTime, trip.operator, trip.amount>>

\* a.departureTime.localeCompare(b.departureTime)
CompareDeparture(a, b) == a.departureTime - b.departureTime

\* The comparators handed to Array.prototype.sort: a sort key and a direction
\* (filters.sortOrder === "asc" ? comparison : -comparison).
Compare(by, a, b) ==
    LET comparison ==
            CASE by.key = "price" -> a.amount - b.amount
              [] by.key = "duration" -> a.duration - b.duration
              [] by.key = "departure" -> CompareDeparture(a, b)
    IN  IF by.order = "asc" THEN comparison ELSE 0 - comparison

ByDeparture == [key |-> "departure", order |-> "asc"]

\* Mutant: x goes in front of the elements equal to it (an unstable sort).
RECURSIVE InsertBeforeEqual(_, _, _)
InsertBeforeEqual(x, s, by) ==
    IF s = <<>> THEN <<x>>
    ELSE IF Compare(by, Head(s), x) < 0
         THEN <<Head(s)>> \o InsertBeforeEqual(x, Tail(s), by)
         ELSE <<x>> \o s

\* Insert x into the sorted list s behind every element that is not greater:
\* the step of a stable sort.
RECURSIVE InsertStable(_, _, _)
InsertStable(x, s, by) ==
    IF s = <<>> THEN <<x>>
    ELSE IF Compare(by, Head(s), x) <= 0
         THEN <<Head(s)>> \o InsertStable(x, Tail(s), by)
         ELSE <<x>> \o s

\* Array.prototype.sort(cmp): stable, ascending under cmp.
RECURSIVE SortStable(_, _)
SortStable(s, by) ==
    IF s = <<>> THEN <<>>
    ELSE InsertStable(s[Len(s)], SortStable(SubSeq(s, 1, Len(s) - 1), by), by)

IsSortedBy(s, by) == \A k \in 1..(Len(s) - 1) : Compare(by, s[k], s[k + 1]) <= 0

KeysOf(trips) == {getTripKey(trips[k]) : k \in DOMAIN trips}

\* ------------------------------------------------------- deduplicateTrips

\* The key built inside deduplicateTrips (the same template as getTripKey).
DedupKey(trip) ==
    <<trip.departureTime, trip.arrivalTime, trip.operator, trip.amount>>

\* A Map is a list of entries in insertion order; set on a present key
\* replaces the value and keeps the entry's position.
MapHas(map, key) == \E k \in DOMAIN map : map[k].key = key

MapGet(map, key) == map[CHOOSE k \in DOMAIN map : map[k].key = key].value

MapSet(map, key, value) ==
    IF MapHas(map, key)
    THEN [k \in DOMAIN map |->
            IF map[k].key = key THEN [key |-> key, value |-> value] ELSE map[k]]
    ELSE Append(map, [key |-> key, value |-> value])

MapValues(map) == [k \in DOMAIN map |-> map[k].value]

\* Mutant: a tie replaces the trip seen first.
KeepsNewOnTie(seen, trip) ==
    \/ ~MapHas(seen, DedupKey(trip))
    \/ trip.availableSeats >= MapGet(seen, DedupKey(trip)).availableSeats

\* if (!existing || trip.availableSeats > existing.availableSeats)
KeepsNew(seen, trip) ==
    \/ ~MapHas(seen, DedupKey(trip))
    \/ trip.availableSeats > MapGet(seen, DedupKey(trip)).availableSeats

RECURSIVE DedupLoop(_, _)
DedupLoop(trips, seen) ==
    IF trips = <<>> THEN seen
    ELSE DedupLoop(Tail(trips),
                   IF KeepsNew(seen, Head(trips))
                   THEN MapSet(seen, DedupKey(Head(trips)), Head(trips))
                   ELSE seen)

\* Mutant: the result is collected in reverse insertion order.
DedupReversed(trips) ==
    LET vals == MapValues(DedupLoop(trips, <<>>))
    IN  [k \in DOMAIN vals |-> vals[Len(vals) + 1 - k]]

deduplicateTrips(trips) == MapValues(DedupLoop(trips, <<>>))

\* ------------------------------------------------------------------- state

VARIABLES
    \* the station directory (stations.json): city name -> station ids
    byCity,
    \* the request: query parameters of GET /search
    req,
    \* who sent it: "browser" (performSearch) or "other"
    caller,
    \* the handler's position: "request", "await", "legacy", "done"
    pc,
    searchPairs,        \* station pairs of the cross product, in build order
    i,                  \* loop index of the batch loop
    inflight,           \* pair indices whose searchRoutes promise is pending
    pairResults,        \* pair index -> settled result, NULL until settled
    seenKeys,           \* streaming: keys already sent
    completedSearches,  \* streaming: counter of reduced results
    totalTripsFound,    \* streaming: counter of trips seen
    errors,             \* messages of the rejected pair searches
    allTrips,           \* batch mode: every trip of every fulfilled search
    events,             \* streaming: the events enqueued on the controller
    closed,             \* streaming: controller.close() was called
    response,           \* the HTTP response, NULL until returned
    issueLog,           \* history: the batches issued, in order
    reducedBatches,     \* history: number of batches whose results were reduced
    \* the browser: performSearch and the search store
    clientPc,           \* "idle", "fetching", "reading", "finished", "failed"
    readPos,            \* wire units of the stream read so far
    buffer,             \* the unterminated tail of the text read so far
    results, filteredResults, filters,
    searchProgress, searchMeta, isLoading, error, hasSearched,
    handled,            \* history: events the read loop has dispatched
    \* deduplicateTrips as a function
    dedupPc, dedupInput, dedupOutput, dedupAgain

serverVars == <<byCity, req, caller, pc, searchPairs, i, inflight, pairResults,
                seenKeys, completedSearches, totalTripsFound, errors, allTrips,
                events, closed, response, issueLog, reducedBatches>>

clientVars == <<clientPc, readPos, buffer, results, filteredResults, filters,
                searchProgress, searchMeta, isLoading, error, hasSearched,
                handled>>

dedupVars == <<dedupPc, dedupInput, dedupOutput, dedupAgain>>

\* The POI loader (module state of poi-loader.ts) and its callers.
VARIABLES
    poiCache,         \* the in-memory cache, NullObject until a load built it
    loadingPromise,   \* the pending-load handle: a load number, 0 for null
    loads,            \* history: every load started, with its promise's state
    fileCacheValid,   \* .cache/poi-cache.json exists and is younger than 24 h
    apiKeySet,        \* TC_API_KEY is configured
    totalPages,       \* pages of 1000 records the upstream catalogue holds
    callerPc,         \* per loadPOIs caller: "idle", "waiting", "done"
    callerAwaits,     \* per caller: the load whose promise it awaits
    callerResult,     \* per caller: what its await produced
    clears            \* history: number of clearPOICache calls

poiVars == <<poiCache, loadingPromise, loads, fileCacheValid, apiKeySet,
             totalPages, callerPc, callerAwaits, callerResult, clears>>

\* Largest number of concurrent callers of loadPOIs.
MaxCallers == 3
\* Largest number of catalogue pages.
MaxPages == 2
\* Largest number of clearPOICache calls.
MaxClears == 1

Callers == 1..MaxCallers

NoResult == [status |-> "none", load |-> 0]

POIIdle ==
    /\ poiCache = NullObject
    /\ loadingPromise = 0
    /\ loads = <<>>
    /\ fileCacheValid = FALSE
    /\ apiKeySet = TRUE
    /\ totalPages = 1
    /\ callerPc = [c \in Callers |-> "idle"]
    /\ callerAwaits = [c \in Callers |-> 0]
    /\ callerResult = [c \in Callers |-> NoResult]
    /\ clears = 0

\* The two upstream adapters (pure parsers), applied to one response.
VARIABLES adapter, upstream, parsed, adapterPc

adapterVars == <<adapter, upstream, parsed, adapterPc>>

MaxItineraries == 3

AdapterIdle ==
    /\ adapter = "none"
    /\ upstream = <<>>
    /\ parsed = <<>>
    /\ adapterPc = "idle"

\* One POST /chat request: the tool loop of the chat handler.
VARIABLES
    chatPc, currentResponse, chatAllTrips, chatAllArticles, chatEvents,
    isClosed, chatResponse, toolCalls, modelCalls

chatVars == <<chatPc, currentResponse, chatAllTrips, chatAllArticles,
              chatEvents, isClosed, chatResponse, toolCalls, modelCalls>>

MaxToolCalls == 2

ChatIdle ==
    /\ chatPc = "idle"
    /\ currentResponse = NullObject
    /\ chatAllTrips = <<>>
    /\ chatAllArticles = <<>>
    /\ chatEvents = <<>>
    /\ isClosed = FALSE
    /\ chatResponse = NULL
    /\ toolCalls = <<>>
    /\ modelCalls = <<>>

\* applyFilters as a function of the sidebar's filter state.
VARIABLES filterPc, filterInput, filterState, filterOutput, filterAgain

filterVars == <<filterPc, filterInput, filterState, filterOutput, filterAgain>>

FilterIdle ==
    /\ filterPc = "idle"
    /\ filterInput = <<>>
    /\ filterState = NullObject
    /\ filterOutput = <<>>
    /\ filterAgain = <<>>

\* Successive search_trips calls of one conversation (skipCount 0, 3, 6, ...).
VARIABLES pagePc, pageInput, pageFound, pageSkip, pages

pageVars == <<pagePc, pageInput, pageFound, pageSkip, pages>>

MaxFound == 4

PageIdle ==
    /\ pagePc = "idle"
    /\ pageInput = NullObject
    /\ pageFound = <<>>
    /\ pageSkip = 0
    /\ pages = <<>>

\* translateToPOI as a function of the loaded cache and the place name.
VARIABLES cachePois, placeName, translated, translatePc

translateVars == <<cachePois, placeName, translated, translatePc>>

MaxPois == 3

TranslateIdle ==
    /\ cachePois = <<>>
    /\ placeName = <<>>
    /\ translated = NullObject
    /\ translatePc = "idle"

\* searchStations as a function of the bundled stations and the query.
VARIABLES stationsData, stationQuery, stationOptions, stationsFound, stationPc

stationVars == <<stationsData, stationQuery, stationOptions, stationsFound, stationPc>>

MaxStations == 3

StationIdle ==
    /\ stationsData = <<>>
    /\ stationQuery = <<>>
    /\ stationOptions = NullObject
    /\ stationsFound = <<>>
    /\ stationPc = "idle"

\* The conversation list persisted in localStorage, and the last call on it.
VARIABLES stored, storageClock, storageCalls, lastCall

storageVars == <<stored, storageClock, storageCalls, lastCall>>

\* 50 in the source; the cap is scaled down with the other bounds
MAX_CONVERSATIONS == 3
MaxStorageCalls == 4

StorageIdle ==
    /\ stored = <<>>
    /\ storageClock = 0
    /\ storageCalls = 0
    /\ lastCall = NullObject

\* The search store (useSearchStore) under calls of its actions.
VARIABLES searchStore, storeCalls, storeLast

searchStoreVars == <<searchStore, storeCalls, storeLast>>

MaxStoreCalls == 3

SearchStoreIdle ==
    /\ searchStore = NullObject
    /\ storeCalls = 0
    /\ storeLast = "none"

\* useChat: one sendMessage call of the chat hook.
VARIABLES
    hookPc, hookStream, hookPos, chatConversation, persistedMessages, hookError,
    hookLoading, fullContent, embeddedTrips

hookVars == <<hookPc, hookStream, hookPos, chatConversation, persistedMessages,
              hookError, hookLoading, fullContent, embeddedTrips>>

HookIdle ==
    /\ hookPc = "off"
    /\ hookStream = <<>>
    /\ hookPos = 0
    /\ chatConversation = <<>>
    /\ persistedMessages = <<>>
    /\ hookError = NULL
    /\ hookLoading = FALSE
    /\ fullContent = <<>>
    /\ embeddedTrips = <<>>

libVars == <<poiVars, adapterVars, chatVars, filterVars,
    pageVars,
    translateVars,
    stationVars,
    storageVars,
    searchStoreVars,
    hookVars>>

LibIdle == POIIdle /\ AdapterIdle /\ ChatIdle /\ FilterIdle /\ PageIdle /\ TranslateIdle /\ StationIdle /\ StorageIdle /\ SearchStoreIdle /\ HookIdle

vars == <<serverVars, clientVars, dedupVars, libVars>>

\* --------------------------------------------------------- station directory

\* Bangkok has m stations, Phuket two, Krabi one; no other city is known.
Directory(m) ==
    [city \in {"Bangkok", "Phuket", "Krabi"} |->
        CASE city = "Bangkok" -> [k \in 1..m |-> <<"bkk", k>>]
          [] city = "Phuket" -> << <<"hkt", 1>>, <<"hkt", 2>> >>
          [] city = "Krabi" -> << <<"kbv", 1>> >>]

getStationsByCity(city) ==
    IF city \in DOMAIN byCity THEN byCity[city] ELSE <<>>

getCityInfo(cityName) ==
    LET stations == getStationsByCity(cityName)
    IN  IF Len(stations) = 0 THEN NullObject
        ELSE [name |-> cityName, stationCount |-> Len(stations),
              stations |-> stations]

\* ------------------------------------------------------------------ requests

GoodDate == "2025-06-01"

\* dateRegex.test(date)
DateWellFormed(date) == date \in {GoodDate}

CityRequests ==
    [originCity : {"Bangkok", "Nowhere"},
     destinationCity : {"Phuket", "Krabi", "Nowhere"},
     origin : {NULL}, destination : {NULL}, date : {GoodDate}, stream : BOOLEAN]

LegacyRequests ==
    [originCity : {NULL}, destinationCity : {NULL},
     origin : {NULL, "bkk1"}, destination : {NULL, "hkt1"},
     date : {GoodDate}, stream : {FALSE}]

BadDateRequests ==
    [originCity : {"Bangkok"}, destinationCity : {"Phuket"},
     origin : {NULL}, destination : {NULL}, date : {NULL, "01/06/2025"},
     stream : {FALSE}]

Requests == CityRequests \cup LegacyRequests \cup BadDateRequests

\* ----------------------------------------------------------- upstream search

Fulfilled(trips) == [status |-> "fulfilled", trips |-> trips]
Rejected(message) == [status |-> "rejected", message |-> message]

\* What one searchRoutes promise can settle to: a rejection, or a trip list
\* in departure order (parseApiResponse sorts it).
SearchOutcomes ==
    {Rejected("Search request failed"),
     Fulfilled(<<TripA10>>),
     Fulfilled(<<TripB, TripA25>>)}

\* ---------------------------------------------------------------- responses

Json(status, body) == [status |-> status, body |-> body]

ErrorJson(status, message) == Json(status, [error |-> message])

StreamResponse == [status |-> 200, body |-> "text/event-stream"]

\* errors.length > 0 ? errors : undefined
ErrorsField(errs) ==
    IF Len(errs) > 0 THEN [defined |-> TRUE, list |-> errs]
    ELSE [defined |-> FALSE, list |-> <<>>]

\* --------------------------------------------------------- building the pairs

RECURSIVE PairsOfOrigin(_, _)
PairsOfOrigin(originStation, destStations) ==
    IF destStations = <<>> THEN <<>>
    ELSE <<[originId |-> originStation, destId |-> Head(destStations)]>>
         \o PairsOfOrigin(originStation, Tail(destStations))

\* Mutant: every origin station is paired with the first destination station
\* only.
RECURSIVE BuildPairsFirstDest(_, _)
BuildPairsFirstDest(originStations, destStations) ==
    IF originStations = <<>> THEN <<>>
    ELSE PairsOfOrigin(Head(originStations), <<Head(destStations)>>)
         \o BuildPairsFirstDest(Tail(originStations), destStations)

\* for (originStation of ...) for (destStation of ...) searchPairs.push(...)
RECURSIVE BuildSearchPairs(_, _)
BuildSearchPairs(originStations, destStations) ==
    IF originStations = <<>> THEN <<>>
    ELSE PairsOfOrigin(Head(originStations), destStations)
         \o BuildSearchPairs(Tail(originStations), destStations)

\* Mutant: the slice has no upper end.
BatchToEnd(pairs, from) == (from + 1)..Len(pairs)

\* searchPairs.slice(i, i + CONCURRENCY), as the pair indices (1-based)
BatchIndices(pairs, from) == (from + 1)..Min(from + CONCURRENCY, Len(pairs))

\* Mutant: the loop resumes as soon as one promise has settled
\* (Promise.race / Promise.any in place of Promise.allSettled).
SomeSettled(pending, batch) == pending # batch

\* await Promise.allSettled(...): resumes when no promise of the batch is
\* pending.
AllSettled(pending, batch) == pending = {}

Pending == [status |-> "pending"]

\* The results array of the batch starting at loop index `from`, in the order
\* of the batch (Promise.allSettled keeps the order of its input).
BatchResults(res, pairs, from) ==
    [k \in 1..Cardinality(BatchIndices(pairs, from)) |-> res[from + k]]

\* ------------------------------------------------- streaming: reducing a batch

\* Mutant: the seenKeys test is dropped.
IsNewAlways(seen, trip) == TRUE

\* !seenKeys.has(key)
IsNew(seen, trip) == getTripKey(trip) \notin seen

\* for (const trip of result.value.trips) { ... }
RECURSIVE ReduceTripList(_, _)
ReduceTripList(trips, acc) ==
    IF trips = <<>> THEN acc
    ELSE LET trip == Head(trips)
             counted == [acc EXCEPT !.totalTripsFound = @ + 1]
         IN  ReduceTripList(Tail(trips),
                 IF IsNew(acc.seenKeys, trip)
                 THEN [counted EXCEPT !.seenKeys = @ \cup {getTripKey(trip)},
                                      !.newTrips = Append(@, trip)]
                 ELSE counted)

\* result.reason?.message || "Search failed"
ReasonMessage(result) ==
    IF "message" \in DOMAIN result /\ result.message # NULL
    THEN result.message ELSE "Search failed"

\* Mutant: only the first failure of a request is recorded.
PushErrorOnce(errs, result) ==
    IF errs = <<>> THEN <<ReasonMessage(result)>> ELSE errs

\* errors.push(result.reason?.message || "Search failed")
PushError(errs, result) == Append(errs, ReasonMessage(result))

\* for (const result of results) { completedSearches++; ... }
RECURSIVE ReduceResults(_, _)
ReduceResults(res, acc) ==
    IF res = <<>> THEN acc
    ELSE LET result == Head(res)
             counted == [acc EXCEPT !.completedSearches = @ + 1]
         IN  ReduceResults(Tail(res),
                 IF result.status = "fulfilled"
                 THEN ReduceTripList(result.trips, counted)
                 ELSE [counted EXCEPT !.errors = PushError(@, result)])

\* The events as the client parses them.  searchId (built from Date.now()) is
\* read by nobody and left out, here and in the batch-mode body.
MetaEvent(originInfo, destInfo, date, pairs) ==
    [type |-> "meta", originCity |-> originInfo, destinationCity |-> destInfo,
     date |-> date, totalCombinations |-> Len(pairs)]

TripsEvent(newTrips) ==
    [type |-> "trips", trips |-> SortStable(newTrips, ByDeparture)]

\* Mutant: uniqueTripsFound counts every trip seen, duplicates included.
ProgressEventCountsAll(acc, pairs) ==
    [type |-> "progress", completed |-> acc.completedSearches,
     total |-> Len(pairs), uniqueTripsFound |-> acc.totalTripsFound,
     totalTripsFound |-> acc.totalTripsFound]

ProgressEvent(acc, pairs) ==
    [type |-> "progress", completed |-> acc.completedSearches,
     total |-> Len(pairs), uniqueTripsFound |-> Cardinality(acc.seenKeys),
     totalTripsFound |-> acc.totalTripsFound]

CompleteEvent(acc, pairs) ==
    [type |-> "complete",
     meta |-> [stationCombinations |-> Len(pairs),
               totalTripsFound |-> acc.totalTripsFound,
               uniqueTrips |-> Cardinality(acc.seenKeys),
               errors |-> ErrorsField(acc.errors)]]

\* Mutant: the progress event is sent before the batch's trips.
BatchEventsProgressFirst(acc, pairs) ==
    <<ProgressEvent(acc, pairs)>>
    \o (IF Len(acc.newTrips) > 0 THEN <<TripsEvent(acc.newTrips)>> ELSE <<>>)

\* What one loop iteration enqueues after its reduction.
BatchEvents(acc, pairs) ==
    (IF Len(acc.newTrips) > 0 THEN <<TripsEvent(acc.newTrips)>> ELSE <<>>)
    \o <<ProgressEvent(acc, pairs)>>

\* ------------------------------------------------ batch mode: reducing a batch

\* for (const result of results) { allTrips.push(...) | errors.push(...) }
RECURSIVE CollectResults(_, _)
CollectResults(res, acc) ==
    IF res = <<>> THEN acc
    ELSE LET result == Head(res)
         IN  CollectResults(Tail(res),
                 IF result.status = "fulfilled"
                 THEN [acc EXCEPT !.allTrips = @ \o result.trips]
                 ELSE [acc EXCEPT !.errors = PushError(@, result)])

BatchModeBody(originInfo, destInfo, date, pairs, acc) ==
    LET uniqueTrips == SortStable(deduplicateTrips(acc.allTrips), ByDeparture)
    IN  [trips |-> uniqueTrips, originCity |-> originInfo,
         destinationCity |-> destInfo, date |-> date,
         meta |-> [stationCombinations |-> Len(pairs),
                   totalTripsFound |-> Len(acc.allTrips),
                   uniqueTrips |-> Len(uniqueTrips),
                   errors |-> ErrorsField(acc.errors)]]

\* --------------------------------------------------------- the GET handler

IsCitySearch(r) == r.originCity # NULL /\ r.destinationCity # NULL

Respond(r) ==
    /\ response' = r
    /\ pc' = "done"
    /\ UNCHANGED <<searchPairs, i, inflight, pairResults, seenKeys,
                   completedSearches, totalTripsFound, errors, allTrips,
                   events, closed, issueLog, reducedBatches>>

\* The batch starting at loop index `from` is issued: batch.map(searchRoutes)
\* starts every request of the batch before the handler awaits.  `sent` is
\* what the stream holds at that moment.
IssueBatch(pairs, from, sent) ==
    /\ i' = from
    /\ inflight' = inflight \cup BatchIndices(pairs, from)
    /\ issueLog' = Append(issueLog, [batch |-> BatchIndices(pairs, from),
                                      eventsBefore |-> Len(sent)])
    /\ pc' = "await"

\* City-to-city search: builds the pairs, in streaming mode enqueues the meta
\* event and returns the stream response, and issues the first batch; all in
\* one turn of the event loop.
StartFanOut(originInfo, destInfo) ==
    LET pairs == BuildSearchPairs(originInfo.stations, destInfo.stations)
        sent == IF req.stream
                THEN <<MetaEvent(originInfo, destInfo, req.date, pairs)>>
                ELSE <<>>
    IN  /\ searchPairs' = pairs
        /\ pairResults' = [p \in 1..Len(pairs) |-> Pending]
        /\ events' = sent
        /\ response' = IF req.stream THEN StreamResponse ELSE response
        /\ IssueBatch(pairs, 0, sent)
        /\ UNCHANGED <<seenKeys, completedSearches, totalTripsFound, errors,
                       allTrips, closed, reducedBatches>>

\* GET /search up to its first suspension point.
GET ==
    /\ pc = "request"
    /\ caller = "browser" => clientPc = "fetching"
    /\ IF req.date = NULL
       THEN Respond(ErrorJson(400, "Missing required parameter: date"))
       ELSE IF ~DateWellFormed(req.date)
       THEN Respond(ErrorJson(400, "Invalid date format. Use YYYY-MM-DD"))
       ELSE IF IsCitySearch(req)
       THEN LET originInfo == getCityInfo(req.originCity)
                destInfo == getCityInfo(req.destinationCity)
            IN  IF originInfo = NullObject
                THEN Respond(ErrorJson(404, "Origin city not found"))
                ELSE IF destInfo = NullObject
                THEN Respond(ErrorJson(404, "Destination city not found"))
                ELSE StartFanOut(originInfo, destInfo)
       ELSE IF req.origin = NULL
       THEN Respond(ErrorJson(400,
                "Missing required parameter: origin or originCity"))
       ELSE IF req.destination = NULL
       THEN Respond(ErrorJson(400,
                "Missing required parameter: destination or destinationCity"))
       ELSE /\ pc' = "legacy"
            /\ UNCHANGED <<searchPairs, i, inflight, pairResults, seenKeys,
                           completedSearches, totalTripsFound, errors,
                           allTrips, events, closed, response, issueLog,
                           reducedBatches>>
    /\ UNCHANGED <<byCity, req, caller, clientVars, dedupVars, libVars>>

\* The single searchRoutes call of the station-to-station path settles: its
\* result is returned, a rejection is caught and answered with a 500.
LegacySettle ==
    /\ pc = "legacy"
    /\ \E outcome \in SearchOutcomes :
         IF outcome.status = "fulfilled"
         THEN Respond(Json(200, [trips |-> outcome.trips, date |-> req.date]))
         ELSE Respond(ErrorJson(500, "Search failed. Please try again."))
    /\ UNCHANGED <<byCity, req, caller, clientVars, dedupVars, libVars>>

\* One pending searchRoutes promise of the fan-out settles.
Settle ==
    /\ pc = "await"
    /\ \E p \in inflight, outcome \in SearchOutcomes :
         /\ pairResults' = [pairResults EXCEPT ![p] = outcome]
         /\ inflight' = inflight \ {p}
    /\ UNCHANGED <<byCity, req, caller, pc, searchPairs, i, seenKeys,
                   completedSearches, totalTripsFound, errors, allTrips,
                   events, closed, response, issueLog, reducedBatches,
                   clientVars, dedupVars, libVars>>

\* Streaming mode: Promise.allSettled resolves; the batch is reduced, its trips
\* and progress events are enqueued, and the loop either issues the next batch
\* or enqueues the complete event and closes the stream.
ResumeStream ==
    /\ pc = "await"
    /\ req.stream
    /\ AllSettled(inflight, BatchIndices(searchPairs, i))
    /\ LET acc == ReduceResults(BatchResults(pairResults, searchPairs, i),
                      [seenKeys |-> seenKeys, newTrips |-> <<>>,
                       completedSearches |-> completedSearches,
                       totalTripsFound |-> totalTripsFound,
                       errors |-> errors])
           sent == events \o BatchEvents(acc, searchPairs)
           next == i + CONCURRENCY
       IN  /\ seenKeys' = acc.seenKeys
           /\ completedSearches' = acc.completedSearches
           /\ totalTripsFound' = acc.totalTripsFound
           /\ errors' = acc.errors
           /\ reducedBatches' = reducedBatches + 1
           /\ IF next < Len(searchPairs)
              THEN /\ IssueBatch(searchPairs, next, sent)
                   /\ events' = sent
                   /\ UNCHANGED closed
              ELSE /\ events' = Append(sent, CompleteEvent(acc, searchPairs))
                   /\ closed' = TRUE
                   /\ pc' = "done"
                   /\ UNCHANGED <<i, inflight, issueLog>>
    /\ UNCHANGED <<byCity, req, caller, searchPairs, pairResults, allTrips,
                   response, clientVars, dedupVars, libVars>>

\* Batch mode: Promise.allSettled resolves; the batch is collected, and the
\* loop either issues the next batch or deduplicates, sorts and responds.
ResumeBatch ==
    /\ pc = "await"
    /\ ~req.stream
    /\ AllSettled(inflight, BatchIndices(searchPairs, i))
    /\ LET acc == CollectResults(BatchResults(pairResults, searchPairs, i),
                      [allTrips |-> allTrips, errors |-> errors])
           next == i + CONCURRENCY
       IN  /\ allTrips' = acc.allTrips
           /\ errors' = acc.errors
           /\ reducedBatches' = reducedBatches + 1
           /\ IF next < Len(searchPairs)
              THEN /\ IssueBatch(searchPairs, next, <<>>)
                   /\ UNCHANGED response
              ELSE /\ response' =
                        Json(200, BatchModeBody(getCityInfo(req.originCity),
                                                getCityInfo(req.destinationCity),
                                                req.date, searchPairs, acc))
                   /\ pc' = "done"
                   /\ UNCHANGED <<i, inflight, issueLog>>
    /\ UNCHANGED <<byCity, req, caller, searchPairs, pairResults, seenKeys,
                   completedSearches, totalTripsFound, events, closed,
                   clientVars, dedupVars, libVars>>

\* ------------------------------------------------------ the search store

defaultFilters ==
    [priceRange |-> <<0, 10000>>, departureTimeRange |-> <<0, 24>>,
     vehicleTypes |-> {"bus", "ferry", "train"}, operators |-> {},
     sortBy |-> "departure", sortOrder |-> "asc"]

\* parseInt(trip.departureTime.split(":")[0])
DepartureHour(trip) == trip.departureTime \div 60

\* Mutant: the operator filter is applied to an empty selection too.
OperatorsAlways(f) == TRUE

\* if (filters.operators.length > 0)
OperatorsSelected(f) == f.operators # {}

applyFilters(res, f) ==
    LET InPrice(trip) == /\ trip.amount >= f.priceRange[1]
                         /\ trip.amount <= f.priceRange[2]
        InHours(trip) == /\ DepartureHour(trip) >= f.departureTimeRange[1]
                         /\ DepartureHour(trip) < f.departureTimeRange[2]
        InTypes(trip) == trip.vehicleType \in f.vehicleTypes
        InOperators(trip) == trip.operator \in f.operators
        byPrice == SelectSeq(res, InPrice)
        byHours == SelectSeq(byPrice, InHours)
        byTypes == IF f.vehicleTypes # {} THEN SelectSeq(byHours, InTypes)
                   ELSE byHours
        byOperators == IF OperatorsSelected(f) THEN SelectSeq(byTypes, InOperators)
                       ELSE byTypes
    IN  SortStable(byOperators, [key |-> f.sortBy, order |-> f.sortOrder])

\* The part of the store the stream handlers write.
Store == [results |-> results, filteredResults |-> filteredResults,
          filters |-> filters, searchProgress |-> searchProgress,
          searchMeta |-> searchMeta, handled |-> handled]

setResults(st, res, meta) ==
    [st EXCEPT !.results = res,
               !.filteredResults = applyFilters(res, st.filters),
               !.searchMeta = meta]

\* Mutant: the new trips replace the results held so far.
addResultsReplacing(st, newTrips) ==
    LET sorted == SortStable(newTrips, ByDeparture)
    IN  [st EXCEPT !.results = sorted,
                   !.filteredResults = applyFilters(sorted, st.filters)]

addResults(st, newTrips) ==
    LET merged == SortStable(st.results \o newTrips, ByDeparture)
    IN  [st EXCEPT !.results = merged,
                   !.filteredResults = applyFilters(merged, st.filters)]

setSearchProgress(st, progress) == [st EXCEPT !.searchProgress = progress]

\* ------------------------------------------------------------ performSearch

\* The stream on the wire: every event ("data: ...\n\n") travels as two
\* units, its body and its terminated tail; unit u is part of event
\* (u + 1) \div 2.  A read may end between the two.
WireUnit(u) == [ev |-> (u + 1) \div 2, part |-> IF u % 2 = 1 THEN 1 ELSE 2]

WireLen(evs) == 2 * Len(evs)

\* buffer.split("\n\n") without its last element: the events whose terminator
\* has arrived.
CompleteLines(text, evs) ==
    LET Terminated(unit) == unit.part = 2
        ends == SelectSeq(text, Terminated)
    IN  [k \in DOMAIN ends |-> evs[ends[k].ev]]

\* lines.pop() || "": what follows the last terminator.
Remainder(text) ==
    IF text # <<>> /\ text[Len(text)].part = 1 THEN <<text[Len(text)]>>
    ELSE <<>>

\* switch (data.type) { ... }
HandleEvent(st, data) ==
    LET counted == [st EXCEPT !.handled = @ + 1]
    IN  CASE data.type = "meta" ->
               setSearchProgress(counted,
                   [completed |-> 0, total |-> data.totalCombinations,
                    uniqueTripsFound |-> 0, totalTripsFound |-> 0])
          [] data.type = "trips" -> addResults(counted, data.trips)
          [] data.type = "progress" ->
               setSearchProgress(counted,
                   [completed |-> data.completed, total |-> data.total,
                    uniqueTripsFound |-> data.uniqueTripsFound,
                    totalTripsFound |-> data.totalTripsFound])
          [] data.type = "complete" ->
               setSearchProgress(setResults(counted, counted.results, data.meta),
                                 NullObject)
          [] OTHER -> counted

\* for (const line of lines) { ... }
RECURSIVE HandleLines(_, _)
HandleLines(st, lines) ==
    IF lines = <<>> THEN st
    ELSE HandleLines(HandleEvent(st, Head(lines)), Tail(lines))

WriteStore(st) ==
    /\ results' = st.results
    /\ filteredResults' = st.filteredResults
    /\ filters' = st.filters
    /\ searchProgress' = st.searchProgress
    /\ searchMeta' = st.searchMeta
    /\ handled' = st.handled

\* performSearch up to its fetch: the store is cleared and the request sent.
PerformSearch ==
    /\ clientPc = "idle"
    /\ caller = "browser"
    /\ isLoading' = TRUE
    /\ error' = NULL
    /\ hasSearched' = TRUE
    /\ WriteStore(setSearchProgress(setResults(Store, <<>>, NullObject), NullObject))
    /\ clientPc' = "fetching"
    /\ UNCHANGED <<readPos, buffer, serverVars, dedupVars, libVars>>

\* fetch resolves: a response that is not ok is thrown and caught (the error
\* is stored and the results cleared); otherwise the read loop starts.
FetchResolved ==
    /\ clientPc = "fetching"
    /\ response # NullObject
    /\ IF response.status # 200
       THEN /\ error' = response.body.error
            /\ WriteStore(setResults(Store, <<>>, NullObject))
            /\ isLoading' = FALSE
            /\ clientPc' = "failed"
       ELSE /\ clientPc' = "reading"
            /\ UNCHANGED <<results, filteredResults, filters, searchProgress,
                           searchMeta, handled, isLoading, error>>
    /\ UNCHANGED <<readPos, buffer, hasSearched, serverVars, dedupVars, libVars>>

\* reader.read() returns a chunk: it is appended to the buffer, the complete
\* lines are dispatched in order, the rest stays in the buffer.
ReadChunk ==
    /\ clientPc = "reading"
    /\ \E size \in 1..MaxChunk :
         /\ readPos + size <= WireLen(events)
         /\ LET text == buffer \o [k \in 1..size |-> WireUnit(readPos + k)]
            IN  /\ buffer' = Remainder(text)
                /\ WriteStore(HandleLines(Store, CompleteLines(text, events)))
         /\ readPos' = readPos + size
    /\ UNCHANGED <<clientPc, isLoading, error, hasSearched, serverVars,
                   dedupVars, libVars>>

\* reader.read() reports done: the loop ends and loading is switched off.
ReadDone ==
    /\ clientPc = "reading"
    /\ closed
    /\ readPos = WireLen(events)
    /\ isLoading' = FALSE
    /\ clientPc' = "finished"
    /\ UNCHANGED <<readPos, buffer, results, filteredResults, filters,
                   searchProgress, searchMeta, handled, error, hasSearched,
                   serverVars, dedupVars, libVars>>

\* ------------------------------------------------------------ specification

DedupIdle ==
    /\ dedupPc = "off"
    /\ dedupInput = <<>>
    /\ dedupOutput = <<>>
    /\ dedupAgain = <<>>

Init ==
    /\ byCity \in {Directory(m) : m \in 1..MaxOrigin}
    /\ req \in Requests
    /\ caller = IF IsCitySearch(req) /\ req.stream THEN "browser" ELSE "other"
    /\ pc = "request"
    /\ searchPairs = <<>>
    /\ i = 0
    /\ inflight = {}
    /\ pairResults = <<>>
    /\ seenKeys = {}
    /\ completedSearches = 0
    /\ totalTripsFound = 0
    /\ errors = <<>>
    /\ allTrips = <<>>
    /\ events = <<>>
    /\ closed = FALSE
    /\ response = NullObject
    /\ issueLog = <<>>
    /\ reducedBatches = 0
    /\ clientPc = "idle"
    /\ readPos = 0
    /\ buffer = <<>>
    \* the store may still hold the results of an earlier search
    /\ results \in IF caller = "browser" THEN {<<>>, <<TripC>>} ELSE {<<>>}
    /\ filters = defaultFilters
    /\ filteredResults = applyFilters(results, filters)
    /\ searchProgress = NullObject
    /\ searchMeta = NullObject
    /\ isLoading = FALSE
    /\ error = NULL
    /\ hasSearched = FALSE
    /\ handled = 0
    /\ DedupIdle
    /\ LibIdle

Next ==
    \/ GET
    \/ LegacySettle
    \/ Settle
    \/ ResumeStream
    \/ ResumeBatch
    \/ PerformSearch
    \/ FetchResolved
    \/ ReadChunk
    \/ ReadDone

Spec == Init /\ [][Next]_vars

\* ------------------------------------- deduplicateTrips over bounded inputs

DedupUniverse == {TripA10, TripA25, TripA25b, TripB, TripC}

DedupInputs == UNION {[1..n -> DedupUniverse] : n \in 0..MaxLen}

\* No request and no search: the handler and the browser stay as constructed.
SearchIdle ==
    /\ byCity = Directory(1)
    /\ req = [originCity |-> NULL, destinationCity |-> NULL, origin |-> NULL,
              destination |-> NULL, date |-> NULL, stream |-> FALSE]
    /\ caller = "other"
    /\ pc = "done"
    /\ searchPairs = <<>>
    /\ i = 0
    /\ inflight = {}
    /\ pairResults = <<>>
    /\ seenKeys = {}
    /\ completedSearches = 0
    /\ totalTripsFound = 0
    /\ errors = <<>>
    /\ allTrips = <<>>
    /\ events = <<>>
    /\ closed = FALSE
    /\ response = NullObject
    /\ issueLog = <<>>
    /\ reducedBatches = 0
    /\ clientPc = "idle"
    /\ readPos = 0
    /\ buffer = <<>>
    /\ results = <<>>
    /\ filters = defaultFilters
    /\ filteredResults = <<>>
    /\ searchProgress = NullObject
    /\ searchMeta = NullObject
    /\ isLoading = FALSE
    /\ error = NULL
    /\ hasSearched = FALSE
    /\ handled = 0

InitDedup ==
    /\ SearchIdle
    /\ LibIdle
    /\ dedupPc = "input"
    /\ dedupInput \in DedupInputs
    /\ dedupOutput = <<>>
    /\ dedupAgain = <<>>

RunDedup ==
    /\ dedupPc = "input"
    /\ dedupOutput' = deduplicateTrips(dedupInput)
    /\ dedupPc' = "once"
    /\ UNCHANGED <<dedupInput, dedupAgain, serverVars, clientVars, libVars>>

RunDedupAgain ==
    /\ dedupPc = "once"
    /\ dedupAgain' = deduplicateTrips(dedupOutput)
    /\ dedupPc' = "twice"
    /\ UNCHANGED <<dedupInput, dedupOutput, serverVars, clientVars, libVars>>

NextDedup == RunDedup \/ RunDedupAgain

SpecDedup == InitDedup /\ [][NextDedup]_vars

\* -------------------------------------------------------------- POI loader

exceptPoi == <<serverVars, clientVars, dedupVars, adapterVars, chatVars, filterVars,
    pageVars,
    translateVars,
    stationVars,
    storageVars,
    searchStoreVars,
    hookVars>>

Load(status, viaFile) == [status |-> status, offset |-> 0, viaFile |-> viaFile]

\* buildCache(pois), named by the load that fetched its POIs.
buildCache(load) == [load |-> load]

\* Mutant: a call never joins the load in progress.
ReturnsPendingNever(handle) == FALSE

\* if (loadingPromise) return loadingPromise;
ReturnsPending(handle) == handle # 0

\* loadingPromise = (async () => { ... })(): the body runs up to its first
\* await before the handle is assigned.  With a valid file cache the body
\* completes at once (and its own loadingPromise = null is overwritten by the
\* assignment); without an API key fetchAllThailandPOIs rejects before its
\* first fetch; otherwise the first page is requested.
StartLoad ==
    LET k == Len(loads) + 1
    IN  /\ loadingPromise' = k
        /\ IF fileCacheValid
           THEN /\ loads' = Append(loads, Load("fulfilled", TRUE))
                /\ poiCache' = buildCache(k)
           ELSE IF ~apiKeySet
           THEN /\ loads' = Append(loads, Load("rejected", FALSE))
                /\ UNCHANGED poiCache
           ELSE /\ loads' = Append(loads, Load("fetching", FALSE))
                /\ UNCHANGED poiCache

\* A caller calls loadPOIs() and awaits it.
CallLoadPOIs ==
    /\ \E c \in Callers :
         /\ callerPc[c] = "idle"
         /\ IF poiCache # NullObject
            THEN /\ callerPc' = [callerPc EXCEPT ![c] = "done"]
                 /\ callerResult' = [callerResult EXCEPT ![c] =
                        [status |-> "fulfilled", load |-> poiCache.load]]
                 /\ UNCHANGED <<poiCache, loadingPromise, loads, callerAwaits>>
            ELSE IF ReturnsPending(loadingPromise)
            THEN /\ callerPc' = [callerPc EXCEPT ![c] = "waiting"]
                 /\ callerAwaits' = [callerAwaits EXCEPT ![c] = loadingPromise]
                 /\ UNCHANGED <<poiCache, loadingPromise, loads, callerResult>>
            ELSE /\ StartLoad
                 /\ callerPc' = [callerPc EXCEPT ![c] = "waiting"]
                 /\ callerAwaits' = [callerAwaits EXCEPT ![c] = Len(loads) + 1]
                 /\ UNCHANGED callerResult
    /\ UNCHANGED <<fileCacheValid, apiKeySet, totalPages, clears, exceptPoi>>

\* One page request of fetchAllThailandPOIs returns.  A response that is not
\* ok (or a network error) rejects the load and leaves the handle as it is;
\* the last page saves the file cache (a failed save is only logged), builds
\* the cache and clears the handle.
FetchPage ==
    /\ \E k \in DOMAIN loads, ok \in BOOLEAN, saved \in BOOLEAN :
         /\ loads[k].status = "fetching"
         /\ IF ~ok
            THEN /\ loads' = [loads EXCEPT ![k].status = "rejected"]
                 /\ UNCHANGED <<poiCache, loadingPromise, fileCacheValid>>
            ELSE IF loads[k].offset + 1 < totalPages
            THEN /\ loads' = [loads EXCEPT ![k].offset = @ + 1]
                 /\ UNCHANGED <<poiCache, loadingPromise, fileCacheValid>>
            ELSE /\ loads' = [loads EXCEPT ![k].offset = @ + 1,
                                           ![k].status = "fulfilled"]
                 /\ fileCacheValid' = (fileCacheValid \/ saved)
                 /\ poiCache' = buildCache(k)
                 /\ loadingPromise' = 0
    /\ UNCHANGED <<apiKeySet, totalPages, callerPc, callerAwaits, callerResult,
                   clears, exceptPoi>>

\* The promise a caller awaits has settled: the caller resumes with its value
\* or its rejection.
CallerResumes ==
    /\ \E c \in Callers :
         /\ callerPc[c] = "waiting"
         /\ loads[callerAwaits[c]].status # "fetching"
         /\ callerPc' = [callerPc EXCEPT ![c] = "done"]
         /\ callerResult' = [callerResult EXCEPT ![c] =
                [status |-> loads[callerAwaits[c]].status,
                 load |-> callerAwaits[c]]]
    /\ UNCHANGED <<poiCache, loadingPromise, loads, fileCacheValid, apiKeySet,
                   totalPages, callerAwaits, clears, exceptPoi>>

clearPOICache ==
    /\ clears < MaxClears
    /\ poiCache' = NullObject
    /\ loadingPromise' = 0
    /\ clears' = clears + 1
    /\ UNCHANGED <<loads, fileCacheValid, apiKeySet, totalPages, callerPc,
                   callerAwaits, callerResult, exceptPoi>>

InitPOI ==
    /\ SearchIdle
    /\ DedupIdle
    /\ HookIdle
    /\ SearchStoreIdle
    /\ StorageIdle
    /\ StationIdle
    /\ TranslateIdle
    /\ PageIdle
    /\ AdapterIdle
    /\ ChatIdle
    /\ FilterIdle
    /\ poiCache = NullObject
    /\ loadingPromise = 0
    /\ loads = <<>>
    /\ fileCacheValid \in BOOLEAN
    /\ apiKeySet \in BOOLEAN
    /\ totalPages \in 1..MaxPages
    /\ callerPc = [c \in Callers |-> "idle"]
    /\ callerAwaits = [c \in Callers |-> 0]
    /\ callerResult = [c \in Callers |-> NoResult]
    /\ clears = 0

NextPOI == CallLoadPOIs \/ FetchPage \/ CallerResumes \/ clearPOICache

SpecPOI == InitPOI /\ [][NextPOI]_vars

\* ---------------------------------------------------------------- adapters

exceptAdapter == <<serverVars, clientVars, dedupVars, poiVars, chatVars, filterVars,
    pageVars,
    translateVars,
    stationVars,
    storageVars,
    searchStoreVars,
    hookVars>>

\* An ISO date-time "YYYY-MM-DDTHH:MM" is a day number and a minute of the day;
\* "HH:MM" strings are zero-padded, so localeCompare orders them as minutes.
DateTime(day, hh, mm) == [day |-> day, minute |-> hh * 60 + mm]
extractTime(isoDateTime) == isoDateTime.minute
ValidDate(day) == [valid |-> TRUE, day |-> day]
\* formatDate of an object without year/month/day: "undefined-01-01".
InvalidDate == [valid |-> FALSE, day |-> 0]
extractDate(isoDateTime) == ValidDate(isoDateTime.day)

\* A number or NaN.
Num(n) == [nan |-> FALSE, n |-> n]
NaN == [nan |-> TRUE, n |-> 0]

\* parseDuration("PTnHnM")
parseDuration(d) == d.hours * 60 + d.minutes

mapVehicleType(tags) ==
    IF tags \cap {"ferry", "boat", "catamaran"} # {} THEN "ferry"
    ELSE IF tags \cap {"train", "rail"} # {} THEN "train"
    ELSE "bus"

inferVehicleType(operatorName) ==
    IF operatorName \in {"Lomprayah Catamaran", "Seatran Ferry"} THEN "ferry"
    ELSE IF operatorName \in {"State Railway"} THEN "train"
    ELSE "bus"

\* segments of a response of the POI-keyed upstream: a direct morning leg, a
\* connecting leg one hour after it arrives, a longer direct leg with the same
\* departure, and a night leg arriving after midnight.
TCSegment(dep, arr, hours, minutes, tags) ==
    [departure_time |-> dep, arrival_time |-> arr,
     travel_duration |-> [hours |-> hours, minutes |-> minutes],
     transportation_types |-> tags]
SegmentIds == {"S1", "S2", "S3", "S4"}
segmentMap ==
    [id \in SegmentIds |->
        CASE id = "S1" -> TCSegment(DateTime(1, 10, 0), DateTime(1, 11, 0), 1, 0, {"bus"})
          [] id = "S2" -> TCSegment(DateTime(1, 12, 0), DateTime(1, 13, 0), 1, 0, {"ferry"})
          [] id = "S3" -> TCSegment(DateTime(1, 10, 0), DateTime(1, 12, 30), 2, 30, {"van"})
          [] id = "S4" -> TCSegment(DateTime(1, 23, 0), DateTime(2, 1, 0), 2, 0, {"train"})]

TCItinerary(id, segs, amount, seats) ==
    [id |-> id, departure_segments |-> segs, amount |-> amount,
     number_of_available_seats |-> seats]
TCItineraries ==
    { TCItinerary("i1", <<"S1">>, 500, 10),
      TCItinerary("i2", <<"S1", "S2">>, 300, 5),
      TCItinerary("i3", <<"S3">>, 300, 8),
      TCItinerary("i4", <<"S4">>, 400, 2),
      TCItinerary("i5", <<"S9">>, 100, 1),
      TCItinerary("i6", <<"S9", "S2">>, 200, 4) }

\* .map(segId => segmentMap.get(segId)).filter(s => s !== undefined)
RECURSIVE itinerarySegments(_)
itinerarySegments(ids) ==
    IF ids = <<>> THEN <<>>
    ELSE IF Head(ids) \in SegmentIds
         THEN <<segmentMap[Head(ids)]>> \o itinerarySegments(Tail(ids))
         ELSE itinerarySegments(Tail(ids))

\* itinerarySegments.reduce((sum, seg) => sum + parseDuration(...), 0)
RECURSIVE totalDuration(_)
totalDuration(segs) ==
    IF segs = <<>> THEN 0
    ELSE parseDuration(Head(segs).travel_duration) + totalDuration(Tail(segs))

AdapterTrip(id, depTime, arrTime, depDate, arrDate, duration, amount, seats, vehicleType, nsegs) ==
    [id |-> id, departureTime |-> depTime, arrivalTime |-> arrTime,
     departureDate |-> depDate, arrivalDate |-> arrDate, duration |-> duration,
     amount |-> amount, availableSeats |-> seats, vehicleType |-> vehicleType,
     segments |-> nsegs]

\* The comparator of trips.sort in each adapter: the POI-keyed adapter
\* compares departure times, then prices; the station-keyed adapter compares
\* departure times only.
SortCompare(adapterName, a, b) ==
    LET timeCompare == a.departureTime - b.departureTime
    IN  IF adapterName = "poi" /\ timeCompare = 0
        THEN a.amount - b.amount
        ELSE timeCompare

RECURSIVE InsertTrip(_, _, _)
InsertTrip(x, s, adapterName) ==
    IF s = <<>> THEN <<x>>
    ELSE IF SortCompare(adapterName, Head(s), x) <= 0
         THEN <<Head(s)>> \o InsertTrip(x, Tail(s), adapterName)
         ELSE <<x>> \o s

RECURSIVE SortTrips(_, _)
SortTrips(s, adapterName) ==
    IF s = <<>> THEN <<>>
    ELSE InsertTrip(s[Len(s)],
                    SortTrips(SubSeq(s, 1, Len(s) - 1), adapterName), adapterName)

RECURSIVE ItineraryTrips(_)
ItineraryTrips(itineraries) ==
    IF itineraries = <<>> THEN <<>>
    ELSE LET itinerary == Head(itineraries)
             segs == itinerarySegments(itinerary.departure_segments)
             firstSegment == segs[1]
             lastSegment == segs[Len(segs)]
         IN  IF segs = <<>> THEN ItineraryTrips(Tail(itineraries))
             ELSE <<AdapterTrip(itinerary.id,
                                extractTime(firstSegment.departure_time),
                                extractTime(lastSegment.arrival_time),
                                extractDate(firstSegment.departure_time),
                                extractDate(lastSegment.arrival_time),
                                Num(totalDuration(segs)),
                                itinerary.amount,
                                itinerary.number_of_available_seats,
                                mapVehicleType(firstSegment.transportation_types),
                                Len(segs))>>
                  \o ItineraryTrips(Tail(itineraries))

parseItinerariesResponse(data) == SortTrips(ItineraryTrips(data), "poi")

\* formatTime(timeObj): "HH:MM" of an {hours, minutes} object, "00:00" of null.
formatTime(timeObj) ==
    IF timeObj = NullObject THEN 0 ELSE timeObj.hours * 60 + timeObj.minutes

\* formatDate(dateObj): "YYYY-MM-DD" of a {year, month, day} object.  Of null
\* it is "0000-00-00" and of an object without a year "undefined-MM-DD":
\* strings that are not dates.
formatDate(dateObj) ==
    IF dateObj = NullObject THEN InvalidDate
    ELSE IF dateObj.dated THEN ValidDate(dateObj.day)
    ELSE InvalidDate

\* calculateDuration: Math.round((arr - dep) / 60000) of two local date-times;
\* NaN when either string is not a date.
calculateDuration(departureTime, arrivalTime, departureDate, arrivalDate) ==
    IF departureDate.valid /\ arrivalDate.valid
    THEN Num((arrivalDate.day * 1440 + arrivalTime)
             - (departureDate.day * 1440 + departureTime))
    ELSE NaN

\* calculatePrice(total_amount): units + nanos / 1e9 (whole units here).
calculatePrice(amountObj) == IF amountObj = NullObject THEN 0 ELSE amountObj.units

TimeObj(hh, mm) == [hours |-> hh, minutes |-> mm, dated |-> FALSE, day |-> 0]
TimeOfDay(day, hh, mm) == [hours |-> hh, minutes |-> mm, dated |-> TRUE, day |-> day]
DateObj(day) == [hours |-> 0, minutes |-> 0, dated |-> TRUE, day |-> day]
SegmentKey(boarding, arrival, day) ==
    [boarding_time |-> boarding, arrival_time |-> arrival,
     service_date |-> DateObj(day)]
TripOpt(token, units, seats, operatorName) ==
    [booking_token |-> token, total_amount |-> [units |-> units],
     seats |-> seats, operator_name |-> operatorName]
ItineraryResp(key, options) == [segment_key |-> key, trip_options |-> options]

\* itinerary_responses of the station-keyed upstream: two fares of one
\* departure (dearer first), dated and undated arrivals, an arrival after
\* midnight, an unpriced option and a response without a segment key.
ItineraryResponses ==
    { ItineraryResp(SegmentKey(TimeObj(10, 0), TimeObj(12, 0), 1),
                    <<TripOpt("t1", 500, 10, "12Go Asia"),
                      TripOpt("t2", 300, 4, "Seatran Ferry")>>),
      ItineraryResp(SegmentKey(TimeObj(8, 0), TimeOfDay(1, 9, 0), 1),
                    <<TripOpt("t3", 400, 7, "State Railway")>>),
      ItineraryResp(SegmentKey(TimeObj(23, 0), TimeOfDay(2, 1, 0), 1),
                    <<TripOpt("t4", 300, 2, "12Go Asia")>>),
      ItineraryResp(SegmentKey(TimeObj(23, 0), TimeObj(1, 0), 1),
                    <<TripOpt("t5", 350, 3, "12Go Asia")>>),
      ItineraryResp(SegmentKey(TimeObj(10, 0), TimeOfDay(1, 12, 0), 1),
                    <<TripOpt("t6", 0, 9, "12Go Asia")>>),
      ItineraryResp(NullObject, <<TripOpt("t7", 100, 1, "12Go Asia")>>) }

RECURSIVE OptionTrips(_, _)
OptionTrips(segmentKey, options) ==
    IF options = <<>> THEN <<>>
    ELSE LET opt == Head(options)
             price == calculatePrice(opt.total_amount)
             departureTime == formatTime(segmentKey.boarding_time)
             arrivalTime == formatTime(segmentKey.arrival_time)
             departureDate == formatDate(segmentKey.service_date)
             arrivalDate == formatDate(segmentKey.arrival_time)
         IN  IF price <= 0 THEN OptionTrips(segmentKey, Tail(options))
             ELSE <<AdapterTrip(opt.booking_token, departureTime, arrivalTime,
                                departureDate, arrivalDate,
                                calculateDuration(departureTime, arrivalTime,
                                                  departureDate, arrivalDate),
                                price, opt.seats,
                                inferVehicleType(opt.operator_name), 1)>>
                  \o OptionTrips(segmentKey, Tail(options))

RECURSIVE ResponseTrips(_)
ResponseTrips(itineraryResponses) ==
    IF itineraryResponses = <<>> THEN <<>>
    ELSE LET itineraryResp == Head(itineraryResponses)
         IN  IF itineraryResp.segment_key = NullObject
             THEN ResponseTrips(Tail(itineraryResponses))
             ELSE OptionTrips(itineraryResp.segment_key,
                              itineraryResp.trip_options)
                  \o ResponseTrips(Tail(itineraryResponses))

parseApiResponse(data) == SortTrips(ResponseTrips(data), "legacy")

\* All sequences over S of length at most n.
RECURSIVE SeqsUpTo(_, _)
SeqsUpTo(S, n) ==
    IF n = 0 THEN {<<>>}
    ELSE LET shorter == SeqsUpTo(S, n - 1)
         IN  shorter \cup {Append(q, x) : q \in shorter, x \in S}

InitAdapters ==
    /\ SearchIdle
    /\ DedupIdle
    /\ HookIdle
    /\ SearchStoreIdle
    /\ StorageIdle
    /\ StationIdle
    /\ TranslateIdle
    /\ PageIdle
    /\ POIIdle
    /\ ChatIdle
    /\ FilterIdle
    /\ adapter \in {"poi", "legacy"}
    /\ upstream \in IF adapter = "poi"
                    THEN SeqsUpTo(TCItineraries, MaxItineraries)
                    ELSE SeqsUpTo(ItineraryResponses, MaxItineraries)
    /\ parsed = <<>>
    /\ adapterPc = "ready"

\* searchItineraries: the response of the POI-keyed upstream is parsed.
ParseItineraries ==
    /\ adapterPc = "ready"
    /\ adapter = "poi"
    /\ parsed' = parseItinerariesResponse(upstream)
    /\ adapterPc' = "done"
    /\ UNCHANGED <<adapter, upstream, exceptAdapter>>

\* searchRoutes: the response of the station-keyed upstream is parsed.
ParseLegacy ==
    /\ adapterPc = "ready"
    /\ adapter = "legacy"
    /\ parsed' = parseApiResponse(upstream)
    /\ adapterPc' = "done"
    /\ UNCHANGED <<adapter, upstream, exceptAdapter>>

NextAdapters == ParseItineraries \/ ParseLegacy

SpecAdapters == InitAdapters /\ [][NextAdapters]_vars

\* ------------------------------------------------------------ chat handler

exceptChat == <<serverVars, clientVars, dedupVars, poiVars, adapterVars, filterVars,
    pageVars,
    translateVars,
    stationVars,
    storageVars,
    searchStoreVars,
    hookVars>>

\* What a tool call returns: the text for the model, and the trips or the
\* articles when the property is present.
ToolResult(result, hasTrips, trips, hasArticles, articles) ==
    [result |-> result, hasTrips |-> hasTrips, trips |-> trips,
     hasArticles |-> hasArticles, articles |-> articles]
TextResult(result) == ToolResult(result, FALSE, <<>>, FALSE, <<>>)

\* The input of search_trips; "" and 0 stand for an absent property.
SearchInput(vehicleType, timePreference, skipCount, maxPrice, maxDuration) ==
    [vehicleType |-> vehicleType, timePreference |-> timePreference,
     skipCount |-> skipCount, maxPrice |-> maxPrice, maxDuration |-> maxDuration]
NoInput == SearchInput("", "", 0, 0, 0)

\* trips.filter(...) of handleToolCall.
RECURSIVE FilterTrips(_, _)
FilterTrips(trips, input) ==
    IF trips = <<>> THEN <<>>
    ELSE LET trip == Head(trips)
             hour == trip.departureTime \div 60
             vehicleOk == input.vehicleType = ""
                          \/ trip.vehicleType = input.vehicleType
             timeOk ==
                 CASE input.timePreference = "" -> TRUE
                   [] input.timePreference = "morning" -> hour >= 5 /\ hour < 12
                   [] input.timePreference = "afternoon" -> hour >= 12 /\ hour < 17
                   [] input.timePreference = "evening" -> hour >= 17 /\ hour < 21
                   [] input.timePreference = "night" -> hour >= 21 \/ hour < 5
                   [] OTHER -> TRUE
             priceOk == input.maxPrice = 0 \/ trip.amount <= input.maxPrice
             durationOk == input.maxDuration = 0
                           \/ trip.duration.n <= input.maxDuration * 60
         IN  (IF vehicleOk /\ timeOk /\ priceOk /\ durationOk
              THEN <<trip>> ELSE <<>>)
             \o FilterTrips(Tail(trips), input)

\* Sort by duration ascending, then by price ascending.
DurationThenPrice(a, b) ==
    IF a.duration.n # b.duration.n THEN a.duration.n - b.duration.n
    ELSE a.amount - b.amount

RECURSIVE InsertByDuration(_, _)
InsertByDuration(x, s) ==
    IF s = <<>> THEN <<x>>
    ELSE IF DurationThenPrice(Head(s), x) <= 0
         THEN <<Head(s)>> \o InsertByDuration(x, Tail(s))
         ELSE <<x>> \o s

RECURSIVE SortByDuration(_)
SortByDuration(s) ==
    IF s = <<>> THEN <<>>
    ELSE InsertByDuration(s[Len(s)], SortByDuration(SubSeq(s, 1, Len(s) - 1)))

\* sortedTrips.slice(skip, skip + 3)
Slice(s, from, to) == SubSeq(s, from + 1, Min(to, Len(s)))

\* Mutant: the page is cut out of the filtered list before it is sorted.
searchTripsSliceFirst(input, poi, found) ==
    IF poi = "noOrigin" THEN TextResult("Could not find origin")
    ELSE IF poi = "noDestination" THEN TextResult("Could not find destination")
    ELSE IF found.status = "rejected" THEN TextResult("Search failed")
    ELSE LET trips == FilterTrips(found.trips, input)
             paginatedTrips == SortByDuration(Slice(trips, input.skipCount,
                                                    input.skipCount + 3))
         IN  IF trips = <<>> THEN TextResult("No trips found")
             ELSE IF paginatedTrips = <<>> THEN TextResult("No more trips")
             ELSE ToolResult("Trips", TRUE, paginatedTrips, FALSE, <<>>)

\* case "search_trips" of handleToolCall.  poi is how the two translateToPOI
\* calls end, found the result of searchItineraries.
searchTripsTool(input, poi, found) ==
    IF poi = "noOrigin" THEN TextResult("Could not find origin")
    ELSE IF poi = "noDestination" THEN TextResult("Could not find destination")
    ELSE IF found.status = "rejected" THEN TextResult("Search failed")
    ELSE LET trips == FilterTrips(found.trips, input)
             sortedTrips == SortByDuration(trips)
             paginatedTrips == Slice(sortedTrips, input.skipCount,
                                     input.skipCount + 3)
         IN  IF trips = <<>> THEN TextResult("No trips found")
             ELSE IF paginatedTrips = <<>> THEN TextResult("No more trips")
             ELSE ToolResult("Trips", TRUE, paginatedTrips, FALSE, <<>>)

\* Mutant: an exception inside the tool is raised to the caller.
Rethrown(toolName) == [thrown |-> TRUE, value |-> TextResult("Error executing")]

\* catch (error) { return { result: `Error executing ${toolName}: ...` } }
Caught(toolName) == [thrown |-> FALSE, value |-> TextResult("Error executing")]

Returned(value) == [thrown |-> FALSE, value |-> value]

\* handleToolCall(toolName, toolInput) in the environment env: how the POI
\* translation ends, what the upstream search and the blog return, how many
\* stations match.
handleToolCall(toolName, toolInput, env) ==
    CASE toolName = "search_trips" ->
           IF env.poi = "throws" THEN Caught(toolName)
           ELSE Returned(searchTripsTool(toolInput, env.poi, env.found))
      [] toolName = "find_stations" ->
           IF env.stations = 0 THEN Returned(TextResult("No stations found"))
           ELSE Returned(TextResult("Stations"))
      [] toolName = "search_travel_content" ->
           IF env.content = "error"
           THEN Returned(ToolResult("Error fetching travel content",
                                    FALSE, <<>>, TRUE, <<>>))
           ELSE Returned(ToolResult("Content", FALSE, <<>>, TRUE, env.articles))
      [] OTHER -> Returned(TextResult("Unknown tool"))

\* Content blocks of a model response: at most one tool_use block and at most
\* one text block are looked at (content.find).
ToolUseBlock(id, name, input) == [id |-> id, name |-> name, input |-> input]
NoBlock == ToolUseBlock(0, "none", NoInput)
ModelResponse(stopReason, toolUse, text) ==
    [stop_reason |-> stopReason, toolUse |-> toolUse, text |-> text]

ToolUses(id) ==
    { ToolUseBlock(id, "search_trips", NoInput),
      ToolUseBlock(id, "search_trips", SearchInput("", "", 3, 0, 0)),
      ToolUseBlock(id, "find_stations", NoInput),
      ToolUseBlock(id, "search_travel_content", NoInput),
      ToolUseBlock(id, "get_weather", NoInput) }

\* Mutant: the loop looks at the tool_use block only, not at the stop reason.
HasToolUseBlock(r) == r.toolUse # NoBlock

\* while (currentResponse.stop_reason === "tool_use") {
\*   ... if (!toolUseBlock) break;
ContinuesLoop(r) == r.stop_reason = "tool_use" /\ r.toolUse # NoBlock

\* The responses the model can give to call number id; the number of tool
\* iterations of one turn is bounded.
ModelResponses(id) ==
    { r \in { ModelResponse(stop, block, text) :
                stop \in {"end_turn", "tool_use", "max_tokens"},
                block \in ToolUses(id) \cup {NoBlock},
                text \in BOOLEAN } :
        ContinuesLoop(r) => Len(toolCalls) < MaxToolCalls }

\* The environment of one tool execution.
ToolEnv(poi, found, stations, content, articles) ==
    [poi |-> poi, found |-> found, stations |-> stations, content |-> content,
     articles |-> articles]
Article(n, call) == [title |-> n, call |-> call]
FoundTrips ==
    parseItinerariesResponse(<<TCItinerary("i1", <<"S1">>, 500, 10),
                               TCItinerary("i2", <<"S1", "S2">>, 300, 5),
                               TCItinerary("i3", <<"S3">>, 300, 8),
                               TCItinerary("i4", <<"S4">>, 400, 2)>>)
ToolEnvs(toolName, call) ==
    CASE toolName = "search_trips" ->
           { ToolEnv(poi, Fulfilled(<<>>), 0, "ok", <<>>) :
               poi \in {"throws", "noOrigin", "noDestination"} }
           \cup { ToolEnv("ok", found, 0, "ok", <<>>) :
                    found \in {Rejected("API request failed"), Fulfilled(<<>>),
                               Fulfilled(FoundTrips)} }
      [] toolName = "find_stations" ->
           { ToolEnv("ok", Fulfilled(<<>>), n, "ok", <<>>) : n \in {0, 1} }
      [] toolName = "search_travel_content" ->
           { ToolEnv("ok", Fulfilled(<<>>), 0, "error", <<>>) }
           \cup { ToolEnv("ok", Fulfilled(<<>>), 0, "ok", articles) :
                    articles \in { <<>>, <<Article(1, call)>>,
                                   <<Article(1, call), Article(2, call)>> } }
      [] OTHER -> { ToolEnv("ok", Fulfilled(<<>>), 0, "ok", <<>>) }

\* The message list of a model call.
Message(role, type, id, content) ==
    [role |-> role, type |-> type, id |-> id, content |-> content]
UserMessage == Message("user", "text", 0, "message")
FollowUpMessages(messages, current, toolResult) ==
    messages \o << Message("assistant", "tool_use", current.toolUse.id,
                           current.toolUse.name),
                   Message("user", "tool_result", current.toolUse.id,
                           toolResult.result) >>

ChatEvent(type, data) == [type |-> type, data |-> data]
Done == ChatEvent("[DONE]", <<>>)
ChatError == ChatEvent("error", <<"Failed to generate response">>)

\* Mutant: trips of a tool call are added to those of earlier calls.
UnionTrips(all, toolResult) ==
    IF toolResult.hasTrips THEN all \o toolResult.trips ELSE all

\* if (toolResult.trips) allTrips = toolResult.trips;
ReplaceTrips(all, toolResult) ==
    IF toolResult.hasTrips THEN toolResult.trips ELSE all

\* if (toolResult.articles) allArticles = [...allArticles, ...articles];
CollectArticles(all, toolResult) ==
    IF toolResult.hasArticles THEN all \o toolResult.articles ELSE all

\* The events of the final response, before the sentinel.
FinalEvents(current, trips, articles) ==
    IF ~current.text THEN <<>>
    ELSE <<ChatEvent("text", <<>>)>>
         \o (IF Len(trips) > 0
             THEN <<ChatEvent("trips", Slice(trips, 0, 3))>> ELSE <<>>)
         \o (IF Len(articles) > 0
             THEN <<ChatEvent("articles", Slice(articles, 0, 3))>> ELSE <<>>)

\* catch (error) of start(controller): an error event, then the stream is
\* closed.
FailTurn ==
    /\ chatEvents' = Append(chatEvents, ChatError)
    /\ isClosed' = TRUE
    /\ chatPc' = "closed"

\* POST: the body is validated, the stream is created and the first model
\* call is issued.
ChatPOST ==
    /\ chatPc = "idle"
    /\ \E body \in {"invalid", "empty", "message"}, hasKey \in BOOLEAN :
         IF body = "invalid" \/ (body = "message" /\ ~hasKey)
         THEN /\ chatResponse' = "500"
              /\ chatPc' = "done"
              /\ UNCHANGED modelCalls
         ELSE IF body = "empty"
         THEN /\ chatResponse' = "400"
              /\ chatPc' = "done"
              /\ UNCHANGED modelCalls
         ELSE /\ chatResponse' = "stream"
              /\ chatPc' = "awaitModel"
              /\ modelCalls' = <<(<<UserMessage>>)>>
    /\ UNCHANGED <<currentResponse, chatAllTrips, chatAllArticles, chatEvents,
                   isClosed, toolCalls, exceptChat>>

\* anthropic.messages.create settles.  A rejection ends the turn in the catch
\* block; a response either enters the tool loop (handleToolCall is called)
\* or is the final one: its text, the trips and the articles are sent, then
\* the sentinel, and the stream is closed.
ModelSettles ==
    /\ chatPc = "awaitModel"
    /\ \/ /\ FailTurn
          /\ UNCHANGED currentResponse
       \/ \E r \in ModelResponses(Len(modelCalls)) :
            /\ currentResponse' = r
            /\ IF ContinuesLoop(r)
               THEN /\ chatPc' = "execTool"
                    /\ UNCHANGED <<chatEvents, isClosed>>
               ELSE /\ chatEvents' =
                         chatEvents
                         \o FinalEvents(r, chatAllTrips, chatAllArticles)
                         \o <<Done>>
                    /\ isClosed' = TRUE
                    /\ chatPc' = "closed"
    /\ UNCHANGED <<chatAllTrips, chatAllArticles, chatResponse, toolCalls,
                   modelCalls, exceptChat>>

\* handleToolCall settles: the trips and articles are taken over and the
\* follow-up model call is issued with the tool result.
ToolSettles ==
    /\ chatPc = "execTool"
    /\ \E env \in ToolEnvs(currentResponse.toolUse.name, Len(toolCalls) + 1) :
         LET outcome == handleToolCall(currentResponse.toolUse.name,
                                       currentResponse.toolUse.input, env)
             toolResult == outcome.value
         IN  /\ toolCalls' = Append(toolCalls,
                                    [stop_reason |-> currentResponse.stop_reason,
                                     toolUse |-> currentResponse.toolUse,
                                     env |-> env, outcome |-> outcome])
             /\ IF outcome.thrown
                THEN /\ FailTurn
                     /\ UNCHANGED <<chatAllTrips, chatAllArticles, modelCalls>>
                ELSE /\ chatAllTrips' = ReplaceTrips(chatAllTrips, toolResult)
                     /\ chatAllArticles' =
                            CollectArticles(chatAllArticles, toolResult)
                     /\ modelCalls' =
                            Append(modelCalls,
                                   FollowUpMessages(modelCalls[1],
                                                    currentResponse, toolResult))
                     /\ chatPc' = "awaitModel"
                     /\ UNCHANGED <<chatEvents, isClosed>>
    /\ UNCHANGED <<currentResponse, chatResponse, exceptChat>>

InitChat ==
    /\ SearchIdle
    /\ DedupIdle
    /\ HookIdle
    /\ SearchStoreIdle
    /\ StorageIdle
    /\ StationIdle
    /\ TranslateIdle
    /\ PageIdle
    /\ POIIdle
    /\ AdapterIdle
    /\ FilterIdle
    /\ ChatIdle

NextChat == ChatPOST \/ ModelSettles \/ ToolSettles

SpecChat == InitChat /\ [][NextChat]_vars

\* ------------------------------------------------------------ filter engine

exceptFilter == <<serverVars, clientVars, dedupVars, poiVars, adapterVars,
                  chatVars,
    pageVars,
    translateVars,
    stationVars,
    storageVars,
    searchStoreVars,
    hookVars>>

FilterTrip(id, dep, arr, op, amount, vehicleType) ==
    [Trip(id, dep, arr, op, amount, 10) EXCEPT !.vehicleType = vehicleType]

\* A morning bus and a morning ferry leaving together, an afternoon train with
\* the price and the duration of the bus, and an evening ferry.
FilterUniverse ==
    { FilterTrip("f1", 480, 720, "Songserm", 300, "bus"),
      FilterTrip("f2", 480, 600, "Lomprayah", 500, "ferry"),
      FilterTrip("f3", 840, 1080, "Songserm", 300, "train"),
      FilterTrip("f4", 1140, 1200, "Lomprayah", 700, "ferry") }

vehicleOptions == {"bus", "ferry", "train"}

\* Price and departure-hour ranges of the filter state: everything, the
\* morning slot, and a price cap.
FilterRanges ==
    { [priceRange |-> <<0, 10000>>, departureTimeRange |-> <<0, 24>>],
      [priceRange |-> <<0, 10000>>, departureTimeRange |-> <<6, 12>>],
      [priceRange |-> <<0, 400>>, departureTimeRange |-> <<0, 24>>] }

InitFilter ==
    /\ SearchIdle
    /\ DedupIdle
    /\ HookIdle
    /\ SearchStoreIdle
    /\ StorageIdle
    /\ StationIdle
    /\ TranslateIdle
    /\ PageIdle
    /\ POIIdle
    /\ AdapterIdle
    /\ ChatIdle
    /\ filterPc = "ready"
    /\ filterInput \in SeqsUpTo(FilterUniverse, MaxLen)
    /\ \E ranges \in FilterRanges,
          sortBy \in {"price", "duration", "departure"},
          sortOrder \in {"asc", "desc"} :
         filterState = [defaultFilters EXCEPT
                          !.priceRange = ranges.priceRange,
                          !.departureTimeRange = ranges.departureTimeRange,
                          !.sortBy = sortBy, !.sortOrder = sortOrder]
    /\ filterOutput = <<>>
    /\ filterAgain = <<>>

\* current.includes(x) ? current.filter(t => t !== x) : [...current, x]
Toggle(current, x) == IF x \in current THEN current \ {x} ELSE current \cup {x}

\* handleVehicleToggle(type): setFilters({ vehicleTypes: updated })
handleVehicleToggle ==
    /\ filterPc = "ready"
    /\ \E type \in vehicleOptions :
         filterState' = [filterState EXCEPT
                           !.vehicleTypes = Toggle(filterState.vehicleTypes, type)]
    /\ UNCHANGED <<filterPc, filterInput, filterOutput, filterAgain, exceptFilter>>

\* handleOperatorToggle(operator), for an operator of the results.
handleOperatorToggle ==
    /\ filterPc = "ready"
    /\ \E trip \in Range(filterInput) :
         filterState' = [filterState EXCEPT
                           !.operators = Toggle(filterState.operators,
                                                trip.operator)]
    /\ UNCHANGED <<filterPc, filterInput, filterOutput, filterAgain, exceptFilter>>

\* filteredResults: applyFilters(results, updatedFilters)
ApplyFilters ==
    /\ filterPc = "ready"
    /\ filterOutput' = applyFilters(filterInput, filterState)
    /\ filterPc' = "filtered"
    /\ UNCHANGED <<filterInput, filterState, filterAgain, exceptFilter>>

\* The same filter applied to the list it produced.
ApplyFiltersAgain ==
    /\ filterPc = "filtered"
    /\ filterAgain' = applyFilters(filterOutput, filterState)
    /\ filterPc' = "again"
    /\ UNCHANGED <<filterInput, filterState, filterOutput, exceptFilter>>

NextFilter ==
    \/ handleVehicleToggle
    \/ handleOperatorToggle
    \/ ApplyFilters
    \/ ApplyFiltersAgain

SpecFilter == InitFilter /\ [][NextFilter]_vars

\* -------------------------------------------------------- search_trips pages

exceptPage == <<serverVars, clientVars, dedupVars, poiVars, adapterVars,
                chatVars, filterVars,
    translateVars,
    stationVars,
    storageVars,
    searchStoreVars,
    hookVars>>

\* The summary inside the JSON result of search_trips.
searchTripsSummary(input, found) ==
    LET sortedTrips == SortByDuration(FilterTrips(found.trips, input))
        paginatedTrips == Slice(sortedTrips, input.skipCount, input.skipCount + 3)
    IN  [totalFound |-> Len(sortedTrips), showing |-> Len(paginatedTrips),
         skipped |-> input.skipCount,
         hasMoreResults |-> Len(sortedTrips) > input.skipCount + 3]

\* The itineraries of the upstream that have segments.
PagedItineraries ==
    { it \in TCItineraries :
        itinerarySegments(it.departure_segments) # <<>> }

InitPage ==
    /\ SearchIdle
    /\ DedupIdle
    /\ HookIdle
    /\ SearchStoreIdle
    /\ StorageIdle
    /\ StationIdle
    /\ TranslateIdle
    /\ POIIdle
    /\ AdapterIdle
    /\ ChatIdle
    /\ FilterIdle
    /\ pagePc = "paging"
    /\ \E vehicleType \in {"", "bus"}, timePreference \in {"", "morning", "night"},
          maxPrice \in {0, 400}, maxDuration \in {0, 2} :
         pageInput = SearchInput(vehicleType, timePreference, 0, maxPrice,
                                 maxDuration)
    /\ \E data \in SeqsUpTo(PagedItineraries, MaxFound) :
         pageFound = parseItinerariesResponse(data)
    /\ pageSkip = 0
    /\ pages = <<>>

\* One search_trips call with the filters of the conversation and the next
\* skipCount; the model asks for more until a call returns no trips.
CallSearchTrips ==
    /\ pagePc = "paging"
    /\ LET input == [pageInput EXCEPT !.skipCount = pageSkip]
           toolResult == searchTripsTool(input, "ok", Fulfilled(pageFound))
       IN  /\ pages' = Append(pages,
                              [skipCount |-> pageSkip, toolResult |-> toolResult,
                               summary |-> searchTripsSummary(input,
                                                              Fulfilled(pageFound))])
           /\ pagePc' = IF toolResult.hasTrips THEN "paging" ELSE "done"
           /\ pageSkip' = pageSkip + 3
    /\ UNCHANGED <<pageInput, pageFound, exceptPage>>

NextPage == CallSearchTrips

SpecPage == InitPage /\ [][NextPage]_vars

\* ------------------------------------------------------------ translateToPOI

exceptTranslate == <<serverVars, clientVars, dedupVars, poiVars, adapterVars,
                     chatVars, filterVars, pageVars,
    stationVars,
    storageVars,
    searchStoreVars,
    hookVars>>

\* Strings are sequences of characters.
Str_KohTao == <<"K", "o", "h", " ", "T", "a", "o">>
Str_KoTao == <<"K", "o", " ", "T", "a", "o">>
Str_Krabi == <<"K", "r", "a", "b", "i">>
Str_KrabiBeach == <<"K", "r", "a", "b", "i", " ", "B", "e", "a", "c", "h">>
Str_KohPhangan == <<"K", "o", "h", " ", "P", "h", "a", "n", "g", "a", "n">>
Str_koh_tao == <<"k", "o", "h", " ", "t", "a", "o">>
Str_Tao == <<"T", "a", "o">>
Str_ko_phangan == <<"k", "o", " ", "p", "h", "a", "n", "g", "a", "n">>
Str_Pha_ngan == <<"P", "h", "a", "-", "n", "g", "a", "n">>
Str_krabi_island == <<"k", "r", "a", "b", "i", " ", " ", "i", "s", "l", "a", "n", "d">>
Str_Trat == <<"T", "r", "a", "t">>
Str_Ko == <<"K", "o">>

POI(id, name) == [id |-> id, name |-> name]
POIUniverse ==
    { POI("p1", Str_KohTao),
      POI("p2", Str_KoTao),
      POI("p3", Str_Krabi),
      POI("p4", Str_KrabiBeach),
      POI("p5", Str_KohPhangan) }
PlaceNames ==
    { Str_KohTao,
      Str_KoTao,
      Str_Krabi,
      Str_KrabiBeach,
      Str_KohPhangan,
      Str_koh_tao,
      Str_Tao,
      Str_ko_phangan,
      Str_Pha_ngan,
      Str_krabi_island,
      Str_Trat,
      Str_Ko,
      <<>> }

toLowerCase(s) ==
    [k \in DOMAIN s |->
        CASE s[k] = "K" -> "k" [] s[k] = "T" -> "t" [] s[k] = "P" -> "p"
          [] s[k] = "B" -> "b" [] OTHER -> s[k]]

startsWith(s, prefix) ==
    Len(s) >= Len(prefix) /\ SubSeq(s, 1, Len(prefix)) = prefix
endsWith(s, suffix) ==
    Len(s) >= Len(suffix) /\ SubSeq(s, Len(s) - Len(suffix) + 1, Len(s)) = suffix
includes(s, part) ==
    \E k \in 1..(Len(s) - Len(part) + 1) : SubSeq(s, k, k + Len(part) - 1) = part

RECURSIVE trimStart(_)
trimStart(s) == IF s # <<>> /\ Head(s) = " " THEN trimStart(Tail(s)) ELSE s
RECURSIVE trimEnd(_)
trimEnd(s) ==
    IF s # <<>> /\ s[Len(s)] = " " THEN trimEnd(SubSeq(s, 1, Len(s) - 1)) ELSE s

\* s.replace(/^prefix\s*/i, "ko ") on a lower-case string
replacePrefix(s, prefix) ==
    IF startsWith(s, prefix)
    THEN <<"k", "o", " ">> \o trimStart(SubSeq(s, Len(prefix) + 1, Len(s)))
    ELSE s

\* s.replace(/\s+word$/i, "") on a lower-case string
removeSuffix(s, word) ==
    IF endsWith(s, <<" ">> \o word)
    THEN trimEnd(SubSeq(s, 1, Len(s) - Len(word)))
    ELSE s

\* s.replace(/\s+/g, " ")
RECURSIVE collapseSpaces(_)
collapseSpaces(s) ==
    IF s = <<>> THEN <<>>
    ELSE IF Head(s) = " "
         THEN <<" ">> \o collapseSpaces(trimStart(s))
         ELSE <<Head(s)>> \o collapseSpaces(Tail(s))

IsNotHyphen(c) == c # "-"

normalizeName(name) ==
    LET lower == toLowerCase(name)
        noHyphens == SelectSeq(lower, IsNotHyphen)
        koh == replacePrefix(noHyphens, <<"k", "o", "h">>)
        ko == replacePrefix(koh, <<"k", "o">>)
        noIsland == removeSuffix(ko, <<"i", "s", "l", "a", "n", "d">>)
        noBeach == removeSuffix(noIsland, <<"b", "e", "a", "c", "h">>)
    IN  trimEnd(trimStart(collapseSpaces(noBeach)))

\* The keys buildCache sets in byNameLower for one POI.
NormalizedKeys(poi) ==
    {normalizeName(poi.name)}
    \cup IF startsWith(poi.name, <<"K", "o", " ">>)
         THEN LET baseName == toLowerCase(trimStart(SubSeq(poi.name, 3, Len(poi.name))))
              IN  {<<"k", "o", " ">> \o baseName, <<"k", "o", "h", " ">> \o baseName}
         ELSE IF startsWith(poi.name, <<"K", "o", "h", " ">>)
         THEN LET baseName == toLowerCase(trimStart(SubSeq(poi.name, 4, Len(poi.name))))
              IN  {<<"k", "o", " ">> \o baseName, <<"k", "o", "h", " ">> \o baseName}
         ELSE {}

\* Map.get after the sets of buildCache: the last POI that set the key.
Last(S) == CHOOSE k \in S : \A j \in S : j <= k
First(S) == CHOOSE k \in S : \A j \in S : k <= j
byName(pois, key) ==
    LET at == {k \in DOMAIN pois : pois[k].name = key}
    IN  IF at = {} THEN NullObject ELSE pois[Last(at)]
byNameLower(pois, key) ==
    LET at == {k \in DOMAIN pois : key \in NormalizedKeys(pois[k])}
    IN  IF at = {} THEN NullObject ELSE pois[Last(at)]

\* searchPOIs(query, 1)
searchPOIs(pois, query) ==
    LET at == {k \in DOMAIN pois :
                 \/ includes(toLowerCase(pois[k].name), toLowerCase(query))
                 \/ includes(normalizeName(pois[k].name), normalizeName(query))}
    IN  IF at = {} THEN <<>> ELSE <<pois[First(at)]>>

Translation(poi, confidence) ==
    [poi |-> poi.id, name |-> poi.name, confidence |-> confidence]

\* Mutant: the normalized dictionary is asked before the exact one.
translateNormalizedFirst(pois, name) ==
    LET exact == byName(pois, name)
        normalizedMatch == byNameLower(pois, normalizeName(name))
        partialMatches == searchPOIs(pois, name)
    IN  IF normalizedMatch # NullObject THEN Translation(normalizedMatch, "normalized")
        ELSE IF exact # NullObject THEN Translation(exact, "exact")
        ELSE IF Len(partialMatches) > 0 THEN Translation(partialMatches[1], "partial")
        ELSE NullObject

translateToPOI(pois, name) ==
    LET exact == byName(pois, name)
        normalizedMatch == byNameLower(pois, normalizeName(name))
        partialMatches == searchPOIs(pois, name)
    IN  IF exact # NullObject THEN Translation(exact, "exact")
        ELSE IF normalizedMatch # NullObject THEN Translation(normalizedMatch, "normalized")
        ELSE IF Len(partialMatches) > 0 THEN Translation(partialMatches[1], "partial")
        ELSE NullObject

InitTranslate ==
    /\ SearchIdle
    /\ DedupIdle
    /\ HookIdle
    /\ SearchStoreIdle
    /\ StorageIdle
    /\ StationIdle
    /\ POIIdle
    /\ AdapterIdle
    /\ ChatIdle
    /\ FilterIdle
    /\ PageIdle
    /\ cachePois \in SeqsUpTo(POIUniverse, MaxPois)
    /\ placeName \in PlaceNames
    /\ translated = NullObject
    /\ translatePc = "call"

Translate ==
    /\ translatePc = "call"
    /\ translated' = translateToPOI(cachePois, placeName)
    /\ translatePc' = "done"
    /\ UNCHANGED <<cachePois, placeName, exceptTranslate>>

NextTranslate == Translate

SpecTranslate == InitTranslate /\ [][NextTranslate]_vars

\* ------------------------------------------------------------ searchStations

exceptStation == <<serverVars, clientVars, dedupVars, poiVars, adapterVars,
                   chatVars, filterVars, pageVars, translateVars,
    storageVars,
    searchStoreVars,
    hookVars>>

Str_Pai == <<"P", "a", "i">>
Str_PaiKrabi == <<"P", "a", "i", " ", "K", "r", "a", "b", "i">>
Str_krabi == <<"k", "r", "a", "b", "i">>
Str_Krabi_sp == <<"K", "r", "a", "b", "i", " ">>
Str_kr == <<"k", "r">>
Str_k == <<"k">>
Str_blank == <<" ", " ">>
Str_Th == <<"T", "h">>
Str_th == <<"t", "h">>
Str_Kh == <<"K", "h">>

Station(id, name, city, province, country) ==
    [id |-> id, name |-> name, city |-> city, province |-> province,
     country |-> country]
StationUniverse ==
    { Station("s1", Str_Krabi, Str_Krabi, Str_Krabi, Str_Th),
      Station("s2", Str_Krabi, Str_Trat, Str_Trat, Str_Th),
      Station("s3", Str_Pai, Str_Krabi, Str_Trat, Str_Kh),
      Station("s4", Str_PaiKrabi, Str_Pai, Str_Krabi, Str_Th),
      Station("s5", Str_Trat, Str_Trat, Str_Trat, Str_Th) }
StationQueries ==
    { Str_krabi, Str_Krabi_sp, Str_kr, Str_k, Str_blank, Str_Trat, <<>> }
\* options.limit and options.country; the empty country is the option left out
StationOptionSets ==
    [limit : {1, 10}, country : {<<>>, Str_th}]

\* s.split(/\s+/): the pieces between runs of white space
RECURSIVE split(_)
split(s) ==
    IF \A k \in DOMAIN s : s[k] # " " THEN <<s>>
    ELSE LET at == CHOOSE k \in DOMAIN s :
                       s[k] = " " /\ \A j \in 1..(k - 1) : s[j] # " "
         IN  <<SubSeq(s, 1, at - 1)>>
                 \o split(trimStart(SubSeq(s, at, Len(s))))

\* the score of one station: in each group of bonuses the first field that
\* matches scores, the others are not looked at
stationScore(station, normalizedQuery) ==
    LET name == toLowerCase(station.name)
        city == toLowerCase(station.city)
        province == toLowerCase(station.province)
        words == split(name) \o split(city) \o split(province)
    IN  (IF name = normalizedQuery THEN 100
         ELSE IF city = normalizedQuery THEN 90
         ELSE IF province = normalizedQuery THEN 80 ELSE 0)
      + (IF startsWith(name, normalizedQuery) THEN 50
         ELSE IF startsWith(city, normalizedQuery) THEN 45
         ELSE IF startsWith(province, normalizedQuery) THEN 40 ELSE 0)
      + (IF includes(name, normalizedQuery) THEN 20
         ELSE IF includes(city, normalizedQuery) THEN 15
         ELSE IF includes(province, normalizedQuery) THEN 10 ELSE 0)
      + (IF \E k \in DOMAIN words : startsWith(words[k], normalizedQuery)
         THEN 30 ELSE 0)

\* [...].sort((a, b) => b.score - a.score): stable, highest score first
RECURSIVE InsertByScore(_, _)
InsertByScore(x, s) ==
    IF s = <<>> THEN <<x>>
    ELSE IF s[Len(s)].score >= x.score THEN Append(s, x)
    ELSE Append(InsertByScore(x, SubSeq(s, 1, Len(s) - 1)), s[Len(s)])
RECURSIVE SortByScore(_)
SortByScore(s) ==
    IF s = <<>> THEN <<>>
    ELSE InsertByScore(s[Len(s)], SortByScore(SubSeq(s, 1, Len(s) - 1)))

InCountry(station, country) ==
    country = <<>> \/ toLowerCase(station.country) = toLowerCase(country)

\* the stations with their scores, before the filter on the score
ScoredStations(stations, query, country) ==
    LET normalizedQuery == trimEnd(trimStart(toLowerCase(query)))
        inCountry == SelectSeq(stations, LAMBDA st : InCountry(st, country))
    IN  [k \in DOMAIN inCountry |->
            [station |-> inCountry[k],
             score |-> stationScore(inCountry[k], normalizedQuery)]]

searchStations(stations, query, options) ==
    IF Len(query) < 2 THEN <<>>
    ELSE LET scored == ScoredStations(stations, query, options.country)
             positive == SelectSeq(scored, LAMBDA e : e.score > 0)
             sorted == SortByScore(positive)
             sliced == SubSeq(sorted, 1, Min(options.limit, Len(sorted)))
         IN  [k \in DOMAIN sliced |-> sliced[k].station]

InitStation ==
    /\ SearchIdle
    /\ DedupIdle
    /\ HookIdle
    /\ SearchStoreIdle
    /\ StorageIdle
    /\ POIIdle
    /\ AdapterIdle
    /\ ChatIdle
    /\ FilterIdle
    /\ PageIdle
    /\ TranslateIdle
    /\ stationsData \in SeqsUpTo(StationUniverse, MaxStations)
    /\ stationQuery \in StationQueries
    /\ stationOptions \in StationOptionSets
    /\ stationsFound = <<>>
    /\ stationPc = "call"

SearchStations ==
    /\ stationPc = "call"
    /\ stationsFound' = searchStations(stationsData, stationQuery, stationOptions)
    /\ stationPc' = "done"
    /\ UNCHANGED <<stationsData, stationQuery, stationOptions, exceptStation>>

NextStation == SearchStations

SpecStation == InitStation /\ [][NextStation]_vars

\* -------------------------------------------------------------- chat storage

exceptStorage == <<serverVars, clientVars, dedupVars, poiVars, adapterVars,
                   chatVars, filterVars, pageVars, translateVars, stationVars,
    searchStoreVars,
    hookVars>>

\* A conversation: its messages are the roles of the messages.
Conversation(id, title, messages, updatedAt) ==
    [id |-> id, title |-> title, messages |-> messages, updatedAt |-> updatedAt]

\* localStorage.setItem of the list, then of its first half: "ok", the first
\* throws QuotaExceededError and the second succeeds ("quota"), both throw
\* ("full"), the first throws another error ("error")
SetItemOutcomes == {"ok", "quota", "full", "error"}

\* [...].sort((a, b) => b.updatedAt - a.updatedAt): stable, latest first
RECURSIVE InsertByUpdatedAt(_, _)
InsertByUpdatedAt(x, s) ==
    IF s = <<>> THEN <<x>>
    ELSE IF s[Len(s)].updatedAt >= x.updatedAt THEN Append(s, x)
    ELSE Append(InsertByUpdatedAt(x, SubSeq(s, 1, Len(s) - 1)), s[Len(s)])
RECURSIVE SortByUpdatedAt(_)
SortByUpdatedAt(s) ==
    IF s = <<>> THEN <<>>
    ELSE InsertByUpdatedAt(s[Len(s)], SortByUpdatedAt(SubSeq(s, 1, Len(s) - 1)))

getConversations(data) == SortByUpdatedAt(data)

\* what localStorage holds after saveConversations(conversations)
saveConversations(data, conversations, outcome) ==
    CASE outcome = "ok" -> conversations
      [] outcome = "quota" -> SubSeq(conversations, 1, Len(conversations) \div 2)
      [] OTHER -> data

\* the title after an update of a conversation
UpdatedTitle(title, messages) ==
    IF title = "New conversation" /\ \E k \in DOMAIN messages : messages[k] = "user"
    THEN "generated"
    ELSE title

IndexOfConversation(conversations, id) ==
    IF \E k \in DOMAIN conversations : conversations[k].id = id
    THEN CHOOSE k \in DOMAIN conversations :
             /\ conversations[k].id = id
             /\ \A j \in 1..(k - 1) : conversations[j].id # id
    ELSE 0

Call(op, id, found, before, outcome) ==
    [op |-> op, id |-> id, found |-> found, before |-> before, outcome |-> outcome]

InitStorage ==
    /\ SearchIdle
    /\ DedupIdle
    /\ HookIdle
    /\ SearchStoreIdle
    /\ POIIdle
    /\ AdapterIdle
    /\ ChatIdle
    /\ FilterIdle
    /\ PageIdle
    /\ TranslateIdle
    /\ StationIdle
    /\ stored = <<>>
    /\ storageClock = 0
    /\ storageCalls = 0
    /\ lastCall = NullObject

\* createConversation(firstMessage?) at time now; ids are generated from the
\* time and a random part, here the number of the call
createConversation ==
    /\ storageCalls < MaxStorageCalls
    /\ \E now \in {storageClock, storageClock + 1}, withMessage \in BOOLEAN,
          outcome \in SetItemOutcomes :
          LET conversation ==
                  Conversation(storageCalls + 1,
                               IF withMessage THEN "generated" ELSE "New conversation",
                               IF withMessage THEN <<"user">> ELSE <<>>,
                               now)
              conversations == <<conversation>> \o getConversations(stored)
              trimmed == SubSeq(conversations, 1,
                                Min(MAX_CONVERSATIONS, Len(conversations)))
          IN  /\ stored' = saveConversations(stored, trimmed, outcome)
              /\ storageClock' = now
              /\ lastCall' = Call("create", conversation.id, TRUE, stored, outcome)
    /\ storageCalls' = storageCalls + 1
    /\ UNCHANGED exceptStorage

\* the list saved by updateConversation(id, {messages}) at time now
UpdatedList(data, id, messages, now) ==
    LET conversations == getConversations(data)
        index == IndexOfConversation(conversations, id)
        updated == Conversation(id,
                                UpdatedTitle(conversations[index].title, messages),
                                messages, now)
    IN  [conversations EXCEPT ![index] = updated]

\* updateConversation(id, {messages: the same messages})
updateConversation ==
    /\ storageCalls < MaxStorageCalls
    /\ \E id \in 1..MaxStorageCalls, now \in {storageClock, storageClock + 1},
          outcome \in SetItemOutcomes :
          LET index == IndexOfConversation(getConversations(stored), id)
          IN  /\ stored' =
                     IF index = 0 THEN stored
                     ELSE saveConversations(stored,
                              UpdatedList(stored, id,
                                  getConversations(stored)[index].messages, now),
                              outcome)
              /\ storageClock' = now
              /\ lastCall' = Call("update", id, index # 0, stored,
                                  IF index = 0 THEN "ok" ELSE outcome)
    /\ storageCalls' = storageCalls + 1
    /\ UNCHANGED exceptStorage

\* addMessage(conversationId, message): throws when the conversation is not
\* found, else updateConversation with the message appended
addMessage ==
    /\ storageCalls < MaxStorageCalls
    /\ \E id \in 1..MaxStorageCalls, now \in {storageClock, storageClock + 1},
          role \in {"user", "assistant"}, outcome \in SetItemOutcomes :
          LET index == IndexOfConversation(getConversations(stored), id)
          IN  /\ stored' =
                     IF index = 0 THEN stored
                     ELSE saveConversations(stored,
                              UpdatedList(stored, id,
                                  Append(getConversations(stored)[index].messages, role),
                                  now),
                              outcome)
              /\ storageClock' = now
              /\ lastCall' = Call("addMessage", id, index # 0, stored,
                                  IF index = 0 THEN "ok" ELSE outcome)
    /\ storageCalls' = storageCalls + 1
    /\ UNCHANGED exceptStorage

deleteConversation ==
    /\ storageCalls < MaxStorageCalls
    /\ \E id \in 1..MaxStorageCalls, outcome \in SetItemOutcomes :
          LET conversations == getConversations(stored)
              filtered == SelectSeq(conversations, LAMBDA c : c.id # id)
              found == Len(filtered) # Len(conversations)
          IN  /\ stored' =
                     IF found THEN saveConversations(stored, filtered, outcome)
                     ELSE stored
              /\ lastCall' = Call("delete", id, found, stored,
                                  IF found THEN outcome ELSE "ok")
    /\ storageCalls' = storageCalls + 1
    /\ UNCHANGED <<storageClock, exceptStorage>>

NextStorage ==
    \/ createConversation
    \/ updateConversation
    \/ addMessage
    \/ deleteConversation

SpecStorage == InitStorage /\ [][NextStorage]_vars

\* ------------------------------------------------- the search store's actions

exceptSearchStore == <<serverVars, clientVars, dedupVars, poiVars, adapterVars,
                       chatVars, filterVars, pageVars, translateVars,
                       stationVars, storageVars,
    hookVars>>

\* create<SearchStore>(...): the state as constructed (date: getTomorrow())
InitialStore ==
    [origin |-> NULL, destination |-> NULL, date |-> "tomorrow", passengers |-> 1,
     results |-> <<>>, filteredResults |-> <<>>, isLoading |-> FALSE,
     error |-> NULL, hasSearched |-> FALSE, searchProgress |-> NullObject,
     searchMeta |-> NullObject, filters |-> defaultFilters]

\* Partial filter states as the sidebar passes them to setFilters.
FilterPatches ==
    { [vehicleTypes |-> {"bus"}],
      [vehicleTypes |-> {}],
      [operators |-> {"Songserm"}],
      [priceRange |-> <<0, 400>>],
      [departureTimeRange |-> <<6, 12>>],
      [sortBy |-> "price", sortOrder |-> "desc"],
      [sortBy |-> "duration", sortOrder |-> "asc"] }

\* { ...filters, ...newFilters }
MergeFilters(f, newFilters) ==
    LET Pick(field, old) == IF field \in DOMAIN newFilters THEN newFilters[field]
                            ELSE old
    IN  [priceRange |-> Pick("priceRange", f.priceRange),
         departureTimeRange |-> Pick("departureTimeRange", f.departureTimeRange),
         vehicleTypes |-> Pick("vehicleTypes", f.vehicleTypes),
         operators |-> Pick("operators", f.operators),
         sortBy |-> Pick("sortBy", f.sortBy),
         sortOrder |-> Pick("sortOrder", f.sortOrder)]

\* Mutant: the filters are stored, filteredResults is left as it was.
setFiltersOnly(st, newFilters) ==
    [st EXCEPT !.filters = MergeFilters(st.filters, newFilters)]

setFilters(st, newFilters) ==
    LET updatedFilters == MergeFilters(st.filters, newFilters)
    IN  [st EXCEPT !.filters = updatedFilters,
                   !.filteredResults = applyFilters(st.results, updatedFilters)]

resetFilters(st) ==
    [st EXCEPT !.filters = defaultFilters,
               !.filteredResults = applyFilters(st.results, defaultFilters)]

swapCities(st) ==
    [st EXCEPT !.origin = st.destination, !.destination = st.origin]

reset(st) == InitialStore

StoreTrips ==
    { <<>>,
      <<FilterTrip("f1", 480, 720, "Songserm", 300, "bus"),
        FilterTrip("f2", 480, 600, "Lomprayah", 500, "ferry")>>,
      <<FilterTrip("f4", 1140, 1200, "Lomprayah", 700, "ferry"),
        FilterTrip("f3", 840, 1080, "Songserm", 300, "train")>> }

SearchMeta == [stationCombinations |-> 1, totalTripsFound |-> 2, uniqueTrips |-> 2]
SearchProgress == [completed |-> 1, total |-> 2]

InitSearchStore ==
    /\ SearchIdle
    /\ DedupIdle
    /\ HookIdle
    /\ POIIdle
    /\ AdapterIdle
    /\ ChatIdle
    /\ FilterIdle
    /\ PageIdle
    /\ TranslateIdle
    /\ StationIdle
    /\ StorageIdle
    /\ searchStore = InitialStore
    /\ storeCalls = 0
    /\ storeLast = "none"

\* One call of a store action: set(...) replaces the state.
StoreCall(name, next) ==
    /\ storeCalls < MaxStoreCalls
    /\ searchStore' = next
    /\ storeCalls' = storeCalls + 1
    /\ storeLast' = name
    /\ UNCHANGED exceptSearchStore

CallSetOrigin ==
    \E city \in {NULL, "Bangkok"} :
        StoreCall("setOrigin", [searchStore EXCEPT !.origin = city])

CallSetDestination ==
    \E city \in {NULL, "Phuket"} :
        StoreCall("setDestination", [searchStore EXCEPT !.destination = city])

CallSetDate ==
    StoreCall("setDate", [searchStore EXCEPT !.date = GoodDate])

CallSetPassengers ==
    \E n \in {1, 2} :
        StoreCall("setPassengers", [searchStore EXCEPT !.passengers = n])

CallSetResults ==
    \E trips \in StoreTrips, meta \in {NullObject, SearchMeta} :
        StoreCall("setResults", setResults(searchStore, trips, meta))

CallAddResults ==
    \E trips \in StoreTrips :
        StoreCall("addResults", addResults(searchStore, trips))

CallSetSearchProgress ==
    \E progress \in {NullObject, SearchProgress} :
        StoreCall("setSearchProgress", setSearchProgress(searchStore, progress))

CallSetLoading ==
    \E flag \in BOOLEAN :
        StoreCall("setLoading", [searchStore EXCEPT !.isLoading = flag])

CallSetError ==
    \E message \in {NULL, "Search failed"} :
        StoreCall("setError", [searchStore EXCEPT !.error = message])

CallSetHasSearched ==
    \E flag \in BOOLEAN :
        StoreCall("setHasSearched", [searchStore EXCEPT !.hasSearched = flag])

CallSetFilters ==
    \E newFilters \in FilterPatches :
        StoreCall("setFilters", setFilters(searchStore, newFilters))

CallResetFilters == StoreCall("resetFilters", resetFilters(searchStore))

CallSwapCities == StoreCall("swapCities", swapCities(searchStore))

CallReset == StoreCall("reset", reset(searchStore))

NextSearchStore ==
    \/ CallSetOrigin
    \/ CallSetDestination
    \/ CallSetDate
    \/ CallSetPassengers
    \/ CallSetResults
    \/ CallAddResults
    \/ CallSetSearchProgress
    \/ CallSetLoading
    \/ CallSetError
    \/ CallSetHasSearched
    \/ CallSetFilters
    \/ CallResetFilters
    \/ CallSwapCities
    \/ CallReset

SpecSearchStore == InitSearchStore /\ [][NextSearchStore]_vars

\* -------------------------------------------------------------------- useChat

exceptHook == <<serverVars, clientVars, dedupVars, poiVars, adapterVars,
                chatVars, filterVars, pageVars, translateVars, stationVars,
                storageVars, searchStoreVars>>

\* A chat message; content is the list of the text pieces it was built from.
ChatMessage(id, role, content, trips) ==
    [id |-> id, role |-> role, content |-> content, embeddedTrips |-> trips]

assistantPlaceholder == ChatMessage("temp", "assistant", <<>>, <<>>)

\* The event sequences POST /chat sends: a final answer with or without trips
\* and articles, an answer without a text block, and the error of the catch
\* block.
HookStreams ==
    { <<ChatEvent("text", <<>>), Done>>,
      <<ChatEvent("text", <<>>), ChatEvent("trips", <<"t1", "t2">>), Done>>,
      <<ChatEvent("text", <<>>), ChatEvent("articles", <<"a1">>), Done>>,
      <<Done>>,
      <<ChatError>> }

\* A read delivers an event in one piece, or split over two chunks; the hook
\* keeps no buffer, so neither piece of a split line parses.
Wire(evs, intact) == [k \in DOMAIN evs |-> [event |-> evs[k], intact |-> intact[k]]]
HookWires ==
    UNION { { Wire(evs, intact) : intact \in [DOMAIN evs -> BOOLEAN] } :
            evs \in HookStreams }

\* the messages of a conversation opened earlier
EarlierMessages ==
    { <<>>,
      << ChatMessage("u0", "user", <<"text">>, <<>>),
         ChatMessage("a0", "assistant", <<"text">>, <<>>) >> }

\* setConversation: the last message, if it is the assistant's, is rewritten
UpdateLastAssistant(messages, field, value) ==
    IF messages # <<>> /\ messages[Len(messages)].role = "assistant"
    THEN [messages EXCEPT ![Len(messages)][field] = value]
    ELSE messages

\* prev.messages.filter((m) => m.id !== assistantPlaceholder.id)
WithoutPlaceholder(messages) ==
    SelectSeq(messages, LAMBDA m : m.id # assistantPlaceholder.id)

InitHook ==
    /\ SearchIdle
    /\ DedupIdle
    /\ POIIdle
    /\ AdapterIdle
    /\ ChatIdle
    /\ FilterIdle
    /\ PageIdle
    /\ TranslateIdle
    /\ StationIdle
    /\ StorageIdle
    /\ SearchStoreIdle
    /\ hookPc = "idle"
    /\ hookStream \in HookWires
    /\ hookPos = 0
    /\ chatConversation \in EarlierMessages
    /\ persistedMessages = chatConversation
    /\ hookError \in {NULL, "Failed to send message"}
    /\ hookLoading = FALSE
    /\ fullContent = <<>>
    /\ embeddedTrips = <<>>

\* finally { setIsLoading(false); setIsStreaming(false) }
Finally ==
    /\ hookLoading' = FALSE
    /\ hookPc' = "done"

\* catch (err) for an error that is not an AbortError
CatchError(message) ==
    /\ hookError' = message
    /\ chatConversation' = WithoutPlaceholder(chatConversation)
    /\ Finally

\* sendMessage(content) up to its fetch: the error is cleared, the user
\* message is persisted and shown, the placeholder is shown.
sendMessage ==
    /\ hookPc = "idle"
    /\ \E content \in {"", "hello"} :
         IF content = ""
         THEN /\ hookPc' = "done"
              /\ UNCHANGED <<chatConversation, persistedMessages, hookError, hookLoading>>
         ELSE LET userMessage == ChatMessage("u1", "user", <<"text">>, <<>>)
              IN  /\ hookError' = NULL
                  /\ persistedMessages' = Append(persistedMessages, userMessage)
                  /\ chatConversation' =
                         chatConversation \o <<userMessage, assistantPlaceholder>>
                  /\ hookLoading' = TRUE
                  /\ hookPc' = "fetching"
    /\ UNCHANGED <<hookStream, hookPos, fullContent, embeddedTrips, exceptHook>>

\* fetch settles: a rejection or a response that is not ok goes to the catch
\* block, otherwise the read loop starts.
FetchSettles ==
    /\ hookPc = "fetching"
    /\ \/ /\ \E message \in {"Failed to fetch", "Failed to send message"} :
                CatchError(message)
       \/ /\ hookPc' = "reading"
          /\ UNCHANGED <<chatConversation, hookError, hookLoading>>
    /\ UNCHANGED <<hookStream, hookPos, persistedMessages, fullContent,
                   embeddedTrips, exceptHook>>

\* reader.read() returns the next event of the stream.  The throw for an
\* error event is inside the try block whose catch ignores what it catches.
ReadEvent ==
    /\ hookPc = "reading"
    /\ hookPos < Len(hookStream)
    /\ hookPos' = hookPos + 1
    /\ LET unit == hookStream[hookPos + 1]
           ev == unit.event
       IN  IF ~unit.intact \/ ev = Done
           THEN UNCHANGED <<fullContent, embeddedTrips, chatConversation>>
           ELSE IF ev.type = "text"
           THEN /\ fullContent' = Append(fullContent, "text")
                /\ chatConversation' =
                       UpdateLastAssistant(chatConversation, "content", fullContent')
                /\ UNCHANGED embeddedTrips
           ELSE IF ev.type = "trips"
           THEN /\ embeddedTrips' = ev.data
                /\ chatConversation' =
                       UpdateLastAssistant(chatConversation, "embeddedTrips", ev.data)
                /\ UNCHANGED fullContent
           ELSE UNCHANGED <<fullContent, embeddedTrips, chatConversation>>
    /\ UNCHANGED <<hookPc, hookStream, persistedMessages, hookError, hookLoading,
                   exceptHook>>

\* reader.read() reports done: the assistant message is persisted and takes
\* the place of the placeholder.
ReadEnds ==
    /\ hookPc = "reading"
    /\ hookPos = Len(hookStream)
    /\ LET finalAssistantMessage ==
               ChatMessage("a1", "assistant", fullContent, embeddedTrips)
       IN  /\ persistedMessages' = Append(persistedMessages, finalAssistantMessage)
           /\ chatConversation' =
                  Append(WithoutPlaceholder(chatConversation), finalAssistantMessage)
    /\ Finally
    /\ UNCHANGED <<hookStream, hookPos, hookError, fullContent, embeddedTrips,
                   exceptHook>>

\* stopGeneration while the request is under way: fetch or reader.read()
\* rejects with an AbortError and the catch block returns.
stopGeneration ==
    /\ hookPc \in {"fetching", "reading"}
    /\ Finally
    /\ UNCHANGED <<hookStream, hookPos, chatConversation, persistedMessages,
                   hookError, fullContent, embeddedTrips, exceptHook>>

NextHook == sendMessage \/ FetchSettles \/ ReadEvent \/ ReadEnds \/ stopGeneration

SpecHook == InitHook /\ [][NextHook]_vars

\* ============================================================== properties

\* A city-to-city search whose two cities were found.
FanOut == IsCitySearch(req) /\ pc \in {"await", "done"} /\ issueLog # <<>>

FanOutDone == FanOut /\ pc = "done"

IsSettled(p) == pairResults[p].status # "pending"

RejectedPairs == {p \in DOMAIN pairResults : pairResults[p].status = "rejected"}

FulfilledPairs ==
    {p \in DOMAIN pairResults : pairResults[p].status = "fulfilled"}

\* The deduplication key as the specification states it.
SpecKey(trip) ==
    <<trip.departureTime, trip.arrivalTime, trip.operator, trip.amount>>

\* Every trip a fulfilled pair search returned.
ReturnedTrips ==
    UNION {Range(pairResults[p].trips) : p \in FulfilledPairs}

\* The trips of the trips events among evs, in order of delivery.
RECURSIVE TripsOfEvents(_)
TripsOfEvents(evs) ==
    IF evs = <<>> THEN <<>>
    ELSE (IF Head(evs).type = "trips" THEN Head(evs).trips ELSE <<>>)
         \o TripsOfEvents(Tail(evs))

EventsOfType(evs, type) == {k \in DOMAIN evs : evs[k].type = type}

\* C1: no pair search of batch k+1 is issued until every pair search of batch
\* k has settled, and a batch's results are reduced only after all of its
\* searches have settled (streaming and batch mode).
C1_BatchBarrier ==
    FanOut =>
      /\ \A b \in 1..(Len(issueLog) - 1) :
           \A p \in issueLog[b].batch : IsSettled(p)
      /\ reducedBatches <= Len(issueLog)
      /\ \A b \in 1..reducedBatches :
           \A p \in issueLog[b].batch : IsSettled(p)

C1_Witness ==
    /\ FanOutDone
    /\ ~req.stream
    /\ Len(issueLog) = 2
    /\ reducedBatches = 2
    /\ RejectedPairs # {}

\* C2: at every moment at most 5 pair searches of a request are issued and
\* not yet settled.
C2_AtMostFiveInFlight == Cardinality(inflight) <= 5

C2_Witness == FanOut /\ Cardinality(inflight) = 5 /\ Len(searchPairs) > 5

Ceil(a, b) == (a + b - 1) \div b

\* C3: m origin and n destination stations give exactly m*n pair searches,
\* one per (origin station, destination station) pair and none twice, in
\* ceil(m*n/5) sequential batches of which all but the last have 5 pairs.
C3_EachPairSearchedOnce ==
    FanOut =>
      LET os == getStationsByCity(req.originCity)
          ds == getStationsByCity(req.destinationCity)
          total == Len(os) * Len(ds)
      IN  /\ Len(searchPairs) = total
          /\ \A o \in DOMAIN os, d \in DOMAIN ds :
               Cardinality({k \in DOMAIN searchPairs :
                   searchPairs[k] = [originId |-> os[o], destId |-> ds[d]]}) = 1
          /\ \A a, b \in DOMAIN issueLog :
               a # b => issueLog[a].batch \cap issueLog[b].batch = {}
          /\ \A b \in 1..(Len(issueLog) - 1) :
               Cardinality(issueLog[b].batch) = 5
          /\ Len(issueLog) <= Ceil(total, 5)
          /\ pc = "done" =>
               /\ Len(issueLog) = Ceil(total, 5)
               /\ UNION {issueLog[b].batch : b \in DOMAIN issueLog} = 1..total
               /\ Cardinality(issueLog[Len(issueLog)].batch)
                    = total - 5 * (Len(issueLog) - 1)

C3_Witness ==
    /\ FanOutDone
    /\ Len(getStationsByCity(req.originCity)) = 3
    /\ Len(getStationsByCity(req.destinationCity)) = 2
    /\ Len(issueLog) = 2
    /\ Cardinality(issueLog[1].batch) = 5
    /\ Cardinality(issueLog[2].batch) = 1

\* C4: a rejected pair search never fails the request: every pair is still
\* searched, the trips of the fulfilled searches are returned, every rejected
\* pair adds one entry to the errors of the final metadata, and the response
\* is a success even when every pair fails (then with no trips and as many
\* errors as pairs).
C4_RejectionNeverFailsRequest ==
    FanOutDone =>
      LET meta == IF req.stream THEN events[Len(events)].meta
                  ELSE response.body.meta
          trips == IF req.stream THEN TripsOfEvents(events)
                   ELSE response.body.trips
      IN  /\ response.status = 200
          /\ req.stream => events[Len(events)].type = "complete"
          /\ \A p \in DOMAIN searchPairs : IsSettled(p)
          /\ Len(meta.errors.list) = Cardinality(RejectedPairs)
          /\ meta.errors.defined = (RejectedPairs # {})
          /\ {SpecKey(trips[k]) : k \in DOMAIN trips}
               = {SpecKey(t) : t \in ReturnedTrips}
          /\ FulfilledPairs = {} =>
               /\ trips = <<>>
               /\ Len(meta.errors.list) = Len(searchPairs)

C4_Witness ==
    /\ FanOutDone
    /\ ~req.stream
    /\ Len(searchPairs) = 6
    /\ Cardinality(RejectedPairs) = 6
    /\ response.status = 200
    /\ response.body.trips = <<>>
    /\ Len(response.body.meta.errors.list) = 6

\* C5: a stream carries exactly one meta event first (enqueued before any
\* pair search is issued), then per batch at most one trips event followed by
\* exactly one progress event, then exactly one complete event, after which
\* it is closed; nothing follows the complete event.
C5_StreamEventOrder ==
    (FanOut /\ req.stream) =>
      /\ events # <<>>
      /\ EventsOfType(events, "meta") = {1}
      /\ issueLog[1].eventsBefore = 1
      /\ \A k \in DOMAIN events :
           /\ events[k].type \in {"meta", "trips", "progress", "complete"}
           /\ events[k].type = "trips" =>
                /\ events[k - 1].type \in {"meta", "progress"}
                /\ k < Len(events)
                /\ events[k + 1].type = "progress"
           /\ events[k].type = "complete" =>
                /\ k = Len(events)
                /\ events[k - 1].type = "progress"
      /\ Cardinality(EventsOfType(events, "progress")) = reducedBatches
      /\ \A b \in 2..Len(issueLog) :
           /\ events[issueLog[b].eventsBefore].type = "progress"
           /\ Cardinality({k \in EventsOfType(events, "progress") :
                  k <= issueLog[b].eventsBefore}) = b - 1
      /\ closed = (events[Len(events)].type = "complete")
      /\ closed = (pc = "done")
      /\ closed => reducedBatches = Len(issueLog)

C5_Witness ==
    /\ FanOut
    /\ req.stream
    /\ closed
    /\ Len(issueLog) = 2
    /\ Cardinality(EventsOfType(events, "trips")) = 1
    /\ Cardinality(EventsOfType(events, "progress")) = 2

\* C6: within one stream no deduplication key is delivered twice, neither
\* inside one trips event nor across trips events.
C6_NoKeyDeliveredTwice ==
    LET delivered == TripsOfEvents(events)
    IN  \A a, b \in DOMAIN delivered :
          a # b => SpecKey(delivered[a]) # SpecKey(delivered[b])

C6_Witness ==
    /\ FanOut
    /\ closed
    /\ Cardinality(EventsOfType(events, "trips")) = 2
    /\ totalTripsFound > Len(TripsOfEvents(events))
    /\ \E p \in issueLog[2].batch :
         /\ p \in FulfilledPairs
         /\ \E t \in Range(pairResults[p].trips) :
              SpecKey(t) \in KeysOf(events[2].trips)

\* The position of the trip deduplication must keep for the key of trips[k]:
\* the first among the trips of that key with the most seats.
BestPosition(trips, key) ==
    LET same == {j \in DOMAIN trips : SpecKey(trips[j]) = key}
        most == {j \in same :
                   \A h \in same :
                     trips[j].availableSeats >= trips[h].availableSeats}
    IN  CHOOSE j \in most : \A h \in most : j <= h

\* C7: deduplicateTrips returns exactly one trip per distinct key of its
\* input; the trip kept has the most seats among the trips of its key, and
\* among those with the most seats it is the first in input order.
C7_DedupKeepsFirstOfMostSeats ==
    dedupPc # "input" =>
      /\ {SpecKey(dedupOutput[k]) : k \in DOMAIN dedupOutput}
           = {SpecKey(dedupInput[k]) : k \in DOMAIN dedupInput}
      /\ \A a, b \in DOMAIN dedupOutput :
           a # b => SpecKey(dedupOutput[a]) # SpecKey(dedupOutput[b])
      /\ \A k \in DOMAIN dedupOutput :
           dedupOutput[k]
             = dedupInput[BestPosition(dedupInput, SpecKey(dedupOutput[k]))]

C7_Witness ==
    /\ dedupPc = "once"
    /\ dedupInput = <<TripA10, TripA25, TripA25b>>
    /\ dedupOutput = <<TripA25>>

\* C8: in streaming mode the trip delivered for a key has at least as many
\* seats as every other trip of that key the pair searches returned.
C8_StreamDeliversMostSeats ==
    (FanOutDone /\ req.stream) =>
      LET delivered == TripsOfEvents(events)
      IN  \A k \in DOMAIN delivered : \A t \in ReturnedTrips :
            SpecKey(t) = SpecKey(delivered[k]) =>
              delivered[k].availableSeats >= t.availableSeats

\* C9: deduplication is idempotent: deduplicating a deduplicated list gives
\* the same trips in the same order.
C9_DedupIdempotent == dedupPc = "twice" => dedupAgain = dedupOutput

C9_Witness ==
    /\ dedupPc = "twice"
    /\ Len(dedupOutput) = 2
    /\ Len(dedupInput) = 3
    /\ dedupAgain = dedupOutput

\* C10: while the client consumes a stream, its results hold exactly the
\* trips of all trips events handled so far in that search, in ascending
\* order of departure time; handling the complete event changes nothing.
C10_ClientResultsAdditive ==
    clientPc \in {"reading", "finished"} =>
      /\ handled <= Len(events)
      /\ SameBag(results, TripsOfEvents(SubSeq(events, 1, handled)))
      /\ IsSortedBy(results, ByDeparture)

C10_Witness ==
    /\ clientPc = "finished"
    /\ handled = Len(events)
    /\ Cardinality(EventsOfType(events, "trips")) = 2
    /\ events[2].trips = <<TripA10>>
    /\ results = <<TripB, TripA10>>
    /\ searchMeta # NullObject

\* C11: concurrent loadPOIs calls that start while the cache is empty, with no
\* clearPOICache in between, start exactly one load (at most one upstream
\* fetch sequence is in flight), and every caller receives the result of that
\* one load.
C11_ColdStartCoalesces ==
    clears = 0 =>
      /\ Len(loads) <= 1
      /\ Cardinality({k \in DOMAIN loads : loads[k].status = "fetching"}) <= 1
      /\ \A c \in Callers :
           /\ callerPc[c] = "waiting" => callerAwaits[c] = 1
           /\ callerPc[c] = "done" =>
                /\ callerResult[c].load = 1
                /\ callerResult[c].status = loads[1].status

C11_Witness ==
    /\ clears = 0
    /\ totalPages = 2
    /\ loads = <<[status |-> "fulfilled", offset |-> 2, viaFile |-> FALSE]>>
    /\ \A c \in Callers : callerPc[c] = "done" /\ callerAwaits[c] = 1


\* C12: the trip list either adapter returns is ordered by departureTime
\* ascending, and trips with equal departureTime by price.amount ascending.
C12_AdaptersSortByDepartureThenPrice ==
    adapterPc = "done" =>
      \A k \in 1..(Len(parsed) - 1) :
         \/ parsed[k].departureTime < parsed[k + 1].departureTime
         \/ /\ parsed[k].departureTime = parsed[k + 1].departureTime
            /\ parsed[k].amount <= parsed[k + 1].amount

\* C13: every trip an adapter produces has the duration of the minutes between
\* its departure date-time and its arrival date-time, and never a negative one.
C13_DurationIsElapsedMinutes ==
    adapterPc = "done" =>
      \A k \in DOMAIN parsed :
         LET t == parsed[k]
         IN  /\ ~t.duration.nan
             /\ t.departureDate.valid
             /\ t.arrivalDate.valid
             /\ t.duration.n = (t.arrivalDate.day * 1440 + t.arrivalTime)
                               - (t.departureDate.day * 1440 + t.departureTime)
             /\ t.duration.n >= 0


\* The stream of the chat turn has been closed after the sentinel.
ChatAnswered ==
    /\ chatPc = "closed"
    /\ chatEvents # <<>>
    /\ chatEvents[Len(chatEvents)] = Done

\* C14: the chat handler executes a tool, and issues a further model call,
\* only when the current model response has stop reason tool_use and holds a
\* tool_use block; on any other response it leaves the loop, executes no
\* further tool and emits the final answer.
C14_ToolLoopStateMachine ==
    /\ chatPc = "execTool" =>
         /\ currentResponse.stop_reason = "tool_use"
         /\ currentResponse.toolUse # NoBlock
    /\ \A k \in DOMAIN toolCalls :
         /\ toolCalls[k].stop_reason = "tool_use"
         /\ toolCalls[k].toolUse # NoBlock
         /\ toolCalls[k].toolUse.id = k
    /\ chatResponse = "stream" /\ chatPc # "execTool" =>
         Len(modelCalls) = Len(toolCalls) + 1
    /\ chatPc = "execTool" => Len(modelCalls) = Len(toolCalls) + 1
    /\ ChatAnswered =>
         \/ currentResponse.stop_reason # "tool_use"
         \/ currentResponse.toolUse = NoBlock

C14_Witness ==
    /\ ChatAnswered
    /\ Len(toolCalls) = 2
    /\ currentResponse.stop_reason = "tool_use"
    /\ currentResponse.toolUse = NoBlock

\* The trips of the latest tool execution that returned trips.
RECURSIVE LatestTrips(_)
LatestTrips(calls) ==
    IF calls = <<>> THEN <<>>
    ELSE LET last == calls[Len(calls)].outcome.value
         IN  IF last.hasTrips THEN last.trips
             ELSE LatestTrips(SubSeq(calls, 1, Len(calls) - 1))

\* The articles of all tool executions, in call order.
RECURSIVE ArticlesOfCalls(_)
ArticlesOfCalls(calls) ==
    IF calls = <<>> THEN <<>>
    ELSE LET first == Head(calls).outcome.value
         IN  (IF first.hasArticles THEN first.articles ELSE <<>>)
             \o ArticlesOfCalls(Tail(calls))

\* C15: within one chat turn the accumulated trips are exactly the trips of
\* the latest tool execution that returned trips (earlier ones are dropped),
\* and the accumulated articles are the concatenation, in call order, of the
\* articles of every tool execution.
C15_TripsReplacedArticlesAppended ==
    /\ chatAllTrips = LatestTrips(toolCalls)
    /\ chatAllArticles = ArticlesOfCalls(toolCalls)

C15_Witness ==
    /\ Len(toolCalls) = 2
    /\ toolCalls[1].outcome.value.hasTrips
    /\ toolCalls[2].outcome.value.hasTrips
    /\ toolCalls[1].outcome.value.trips # toolCalls[2].outcome.value.trips
    /\ chatAllTrips = toolCalls[2].outcome.value.trips
    /\ ChatAnswered
    /\ \E k \in DOMAIN chatEvents : chatEvents[k].type = "trips"

\* C16: every stream opened by POST /chat ends with the [DONE] sentinel: the
\* last event enqueued before the stream is closed is data: [DONE].
C16_StreamEndsWithDone ==
    isClosed => chatEvents # <<>> /\ chatEvents[Len(chatEvents)] = Done

\* C17: a failing tool never aborts the chat turn: handleToolCall returns a
\* text instead of raising, the text is the tool_result of a further model
\* call, and no error event is emitted because of the tool failure.
C17_ToolFailureBecomesText ==
    /\ \A k \in DOMAIN toolCalls :
         /\ ~toolCalls[k].outcome.thrown
         /\ k + 1 \in DOMAIN modelCalls
         /\ LET sent == modelCalls[k + 1]
            IN  /\ sent[Len(sent)].type = "tool_result"
                /\ sent[Len(sent)].id = toolCalls[k].toolUse.id
                /\ sent[Len(sent)].content = toolCalls[k].outcome.value.result
    /\ (\E e \in DOMAIN chatEvents : chatEvents[e] = ChatError) =>
         Len(modelCalls) = Len(toolCalls) + 1

C17_Witness ==
    /\ ChatAnswered
    /\ Len(toolCalls) = 2
    /\ toolCalls[1].env.poi = "throws"
    /\ toolCalls[1].outcome.value.result = "Error executing"
    /\ toolCalls[2].env.found.status = "rejected"
    /\ toolCalls[2].outcome.value.result = "Search failed"
    /\ \A e \in DOMAIN chatEvents : chatEvents[e] # ChatError


\* C18: applyFilters with the vehicleTypes filter set to the empty list
\* returns an empty list, whatever the trips.
C18_EmptyVehicleTypesRemovesAll ==
    filterPc # "ready" /\ filterState.vehicleTypes = {} => filterOutput = <<>>

\* C19: with operators = [] the result holds every trip that passes the price,
\* departure-hour and vehicle-type predicates, whatever its operator.
C19_EmptyOperatorsKeepsAll ==
    filterPc # "ready" /\ filterState.operators = {} =>
      \A trip \in Range(filterInput) :
         ( /\ trip.amount >= filterState.priceRange[1]
           /\ trip.amount <= filterState.priceRange[2]
           /\ trip.departureTime \div 60 >= filterState.departureTimeRange[1]
           /\ trip.departureTime \div 60 < filterState.departureTimeRange[2]
           /\ trip.vehicleType \in filterState.vehicleTypes )
         => Count(filterOutput, trip) = Count(filterInput, trip)

C19_Witness ==
    /\ filterPc = "filtered"
    /\ filterState.operators = {}
    /\ filterState.vehicleTypes = {"bus", "ferry"}
    /\ Len(filterInput) = 3
    /\ Len(filterOutput) = 2
    /\ filterOutput[1].operator # filterOutput[2].operator

\* C20: filtering is idempotent: applying the same filter state to the list
\* applyFilters produced gives that list again, same trips in the same order.
C20_FilterIdempotent ==
    filterPc = "again" => filterAgain = filterOutput

C20_Witness ==
    /\ filterPc = "again"
    /\ filterState.sortBy = "price"
    /\ filterState.sortOrder = "desc"
    /\ Len(filterInput) = 3
    /\ Len(filterOutput) = 2
    /\ filterOutput[1] # filterOutput[2]
    /\ filterOutput[1].amount = filterOutput[2].amount
    /\ filterAgain = filterOutput


\* The trips of the pages returned so far, in order of delivery.
RECURSIVE PagesConcat(_)
PagesConcat(ps) ==
    IF ps = <<>> THEN <<>>
    ELSE Head(ps).toolResult.trips \o PagesConcat(Tail(ps))

\* a is not behind b in the order duration ascending, then price ascending.
NotBehind(a, b) ==
    \/ a.duration.n < b.duration.n
    \/ a.duration.n = b.duration.n /\ a.amount <= b.amount

\* The trip passes every filter the search_trips input asks for.
PassesRequested(trip) ==
    LET hour == trip.departureTime \div 60
    IN  /\ pageInput.vehicleType # "" => trip.vehicleType = pageInput.vehicleType
        /\ pageInput.timePreference = "morning" => hour >= 5 /\ hour < 12
        /\ pageInput.timePreference = "night" => hour >= 21 \/ hour < 5
        /\ pageInput.maxPrice # 0 => trip.amount <= pageInput.maxPrice
        /\ pageInput.maxDuration # 0 =>
             trip.duration.n <= pageInput.maxDuration * 60

\* C21: search_trips paginates after filtering and after the full sort: the
\* call with skipCount s returns elements s, s+1, s+2 of the filtered trips
\* sorted by duration then price, so the pages for s = 0, 3, 6, ... are
\* disjoint and cover every filtered trip once, and hasMoreResults is true
\* exactly when the filtered list has more than s+3 trips.
C21_PagesAfterFilterAndSort ==
    pagePc # "idle" =>
      LET filtered == SelectSeq(pageFound, PassesRequested)
          n == Len(filtered)
          delivered == PagesConcat(pages)
      IN  /\ Len(delivered) = Min(n, 3 * Len(pages))
          /\ \A j \in 1..(Len(delivered) - 1) :
               NotBehind(delivered[j], delivered[j + 1])
          /\ \A x \in Range(delivered) : Count(delivered, x) <= Count(filtered, x)
          /\ \A x \in Range(filtered) :
               Count(delivered, x) < Count(filtered, x) =>
                 \A j \in DOMAIN delivered : NotBehind(delivered[j], x)
          /\ pagePc = "done" => SameBag(delivered, filtered)
          /\ \A k \in DOMAIN pages :
               LET s == pages[k].skipCount
               IN  /\ s = 3 * (k - 1)
                   /\ Len(pages[k].toolResult.trips) =
                        IF n > s THEN Min(3, n - s) ELSE 0
                   /\ pages[k].toolResult.hasTrips <=> n > s
                   /\ pages[k].summary.hasMoreResults <=> n > s + 3

C21_Witness ==
    /\ pagePc = "done"
    /\ pageInput.vehicleType = "bus"
    /\ Len(pages) = 3
    /\ Len(pages[1].toolResult.trips) = 3
    /\ pages[1].summary.hasMoreResults
    /\ Len(pages[2].toolResult.trips) = 1
    /\ ~pages[2].summary.hasMoreResults
    /\ pages[3].toolResult.result = "No more trips"
    /\ PagesConcat(pages) # pageFound


stationScoreAllFields(station, normalizedQuery) ==
    LET name == toLowerCase(station.name)
        city == toLowerCase(station.city)
        province == toLowerCase(station.province)
        words == split(name) \o split(city) \o split(province)
    IN  (IF name = normalizedQuery THEN 100 ELSE 0)
      + (IF city = normalizedQuery THEN 90 ELSE 0)
      + (IF province = normalizedQuery THEN 80 ELSE 0)
      + (IF startsWith(name, normalizedQuery) THEN 50 ELSE 0)
      + (IF startsWith(city, normalizedQuery) THEN 45 ELSE 0)
      + (IF startsWith(province, normalizedQuery) THEN 40 ELSE 0)
      + (IF includes(name, normalizedQuery) THEN 20 ELSE 0)
      + (IF includes(city, normalizedQuery) THEN 15 ELSE 0)
      + (IF includes(province, normalizedQuery) THEN 10 ELSE 0)
      + (IF \E k \in DOMAIN words : startsWith(words[k], normalizedQuery)
         THEN 30 ELSE 0)

\* C23: searchStations returns the stations of the country whose score is
\* strictly positive, highest score first, where the score of a station is
\* the sum of every bonus that applies: exact, prefix and substring match
\* each counted for the name, for the city and for the province on its own,
\* plus the word-boundary bonus.
C23_ScoreSumsAllBonuses ==
    stationPc = "done" /\ Len(stationQuery) >= 2 =>
        LET normalizedQuery == trimEnd(trimStart(toLowerCase(stationQuery)))
            Sum(st) == stationScoreAllFields(st, normalizedQuery)
        IN  /\ \A k \in DOMAIN stationsFound : Sum(stationsFound[k]) > 0
            /\ \A j, k \in DOMAIN stationsFound :
                   j < k => Sum(stationsFound[j]) >= Sum(stationsFound[k])


StoredIds(data) == {data[k].id : k \in DOMAIN data}

\* a create, an update or an addMessage whose save went through
SavedCall ==
    /\ lastCall # NullObject
    /\ lastCall.op # "delete"
    /\ lastCall.found
    /\ lastCall.outcome \in {"ok", "quota"}

\* C24: the persisted list never holds more than MAX_CONVERSATIONS
\* conversations; a conversation just created or just updated (also by
\* addMessage) is in the list, and the conversations that a create, an update
\* or a quota error drops are the oldest by updatedAt: none of them was
\* updated later than a conversation that is kept. The calls looked at are
\* those whose save went through, at once or after a quota error.
C24_CapEvictsOldestOnly ==
    /\ Len(stored) <= MAX_CONVERSATIONS
    /\ SavedCall =>
           /\ lastCall.id \in StoredIds(stored)
           /\ \A k \in DOMAIN lastCall.before :
                  lastCall.before[k].id \notin StoredIds(stored) =>
                      \A j \in DOMAIN stored :
                          lastCall.before[k].updatedAt <= stored[j].updatedAt

\* the events up to and including the k-th
EventsUpTo(k) == SubSeq(events, 1, k)

\* C25: in a streaming search the k-th progress event reports completed =
\* min(5k, total) with total the number of station pairs, so completed grows
\* strictly, never passes total and is total in the last progress event of a
\* finished stream; its uniqueTripsFound is the number of trips delivered in
\* trips events so far and at most its totalTripsFound; the complete event
\* reports as uniqueTrips the number of trips delivered in all trips events
\* and as stationCombinations the fulfilled pairs plus the error entries.
C25_StreamCountersConsistent ==
    /\ \A k \in EventsOfType(events, "progress") :
           LET nth == Cardinality(EventsOfType(EventsUpTo(k), "progress"))
               delivered == Len(TripsOfEvents(EventsUpTo(k)))
           IN  /\ events[k].total = Len(searchPairs)
               /\ events[k].completed = Min(CONCURRENCY * nth, events[k].total)
               /\ events[k].uniqueTripsFound = delivered
               /\ events[k].uniqueTripsFound <= events[k].totalTripsFound
    /\ \A k \in EventsOfType(events, "complete") :
           /\ events[k].meta.uniqueTrips = Len(TripsOfEvents(events))
           /\ events[k].meta.stationCombinations
                  = Cardinality(FulfilledPairs) + Len(events[k].meta.errors.list)
           /\ \A j \in EventsOfType(events, "progress") :
                  (\A l \in EventsOfType(events, "progress") : l <= j) =>
                      events[j].completed = events[j].total

\* a finished stream of two batches with a rejected pair and a trip that two
\* pairs returned
C25_Witness ==
    /\ closed
    /\ Cardinality(EventsOfType(events, "progress")) = 2
    /\ Cardinality(EventsOfType(events, "complete")) = 1
    /\ errors # <<>>
    /\ Len(TripsOfEvents(events)) > 0
    /\ Len(TripsOfEvents(events)) < totalTripsFound


\* C26: a failed load is not sticky: once a load started by loadPOIs has
\* failed (no API key, a response that is not ok, a network error) the
\* pending-load handle no longer refers to it, so that the next loadPOIs call
\* starts a new load.
C26_FailedLoadNotSticky ==
    \A k \in DOMAIN loads : loads[k].status = "rejected" => loadingPromise # k


IsPrefix(s, t) == Len(s) <= Len(t) /\ SubSeq(t, 1, Len(s)) = s

\* C27: within one chat turn the message list of every follow-up model call
\* holds the tool_use / tool_result pairs of all earlier tool executions of
\* the turn in order: the list of a call extends the list of the call before
\* it by one pair, so the context only grows.
C27_FollowUpCarriesAllPairs ==
    \A k \in 2..Len(modelCalls) :
        /\ IsPrefix(modelCalls[k - 1], modelCalls[k])
        /\ Len(modelCalls[k]) = Len(modelCalls[1]) + 2 * (k - 1)
        /\ \A j \in 1..(k - 1) :
               \E m \in DOMAIN modelCalls[k] :
                   /\ modelCalls[k][m].type = "tool_use"
                   /\ modelCalls[k][m].id = toolCalls[j].toolUse.id

SearchTripsCalls == {k \in DOMAIN toolCalls : toolCalls[k].toolUse.name = "search_trips"}

\* C28: the trips event of a chat turn reflects the latest search_trips
\* execution of the turn: when that execution returned no trips (a place not
\* found, no result, no further page, a failed search) the answer carries no
\* trips event.
C28_TripsEventOfLatestSearch ==
    ChatAnswered /\ SearchTripsCalls # {} =>
        LET latest == CHOOSE k \in SearchTripsCalls :
                          \A j \in SearchTripsCalls : j <= k
        IN  ~toolCalls[latest].outcome.value.hasTrips =>
                \A e \in DOMAIN chatEvents : chatEvents[e].type # "trips"


\* the store actions that write neither the results nor the filters
FormActions ==
    {"setOrigin", "setDestination", "setDate", "setPassengers", "swapCities",
     "setLoading", "setError", "setSearchProgress"}

FilteredInSync ==
    searchStore.filteredResults
        = applyFilters(searchStore.results, searchStore.filters)

FormActionKeepsResults ==
    storeLast' \in FormActions =>
        /\ searchStore'.results = searchStore.results
        /\ searchStore'.filters = searchStore.filters
        /\ searchStore'.filteredResults = searchStore.filteredResults

\* C29: in the search store filteredResults is applyFilters(results, filters)
\* in the initial state and after every sequence of store actions, and the
\* actions setOrigin, setDestination, setDate, setPassengers, swapCities,
\* setLoading, setError and setSearchProgress leave results, filters and
\* filteredResults as they were.
C29_FilteredResultsInSync ==
    [](searchStore # NullObject => FilteredInSync)
        /\ [][searchStore # NullObject => FormActionKeepsResults]_vars

\* filters set after results arrived, hiding some of them, then a form action
C29_Witness ==
    /\ storeCalls = 3
    /\ storeLast = "swapCities"
    /\ Len(searchStore.results) = 2
    /\ Len(searchStore.filteredResults) = 1
    /\ searchStore.filters # defaultFilters


\* the error events the read loop has received in one piece
ErrorsReceived ==
    {k \in 1..hookPos : hookStream[k].intact /\ hookStream[k].event.type = "error"}

\* C30: when sendMessage has received an error event on the stream, the
\* hook's error is the message of the event, the assistant placeholder is no
\* longer among the messages shown, and no assistant message of the turn was
\* persisted.
C30_ErrorEventSurfaces ==
    hookPc = "done" /\ ErrorsReceived # {} =>
        /\ \E k \in ErrorsReceived : hookError = hookStream[k].event.data[1]
        /\ \A m \in DOMAIN chatConversation :
               chatConversation[m].id # assistantPlaceholder.id
        /\ \A m \in DOMAIN persistedMessages : persistedMessages[m].id # "a1"

====
